---- MODULE Spec2Model ----
(***************************************************************************)
(* Verification model of the EnergosbytPlus integration                    *)
(* (custom_components/energosbyt_plus).                                    *)
(*                                                                         *)
(*   Spec         entity-side coroutines: EnergosbytPlusEntity.async_update*)
(*                and the push_indications service, each wrapped by        *)
(*                with_auto_auth, on top of the per-class coalescing       *)
(*                getters _collective_get_*_data_for_account.              *)
(*   SpecRefresh  the update orchestrator async_refresh_api_data and the   *)
(*                async_refresh_account tasks of the entity classes.       *)
(*                                                                         *)
(* asyncio is cooperative: one action is the code a coroutine runs between *)
(* two suspension points (awaits that really suspend).                     *)
(***************************************************************************)
EXTENDS Integers, Sequences, FiniteSets, TLC

\* ---------------------------------------------------------------- bounds
NCallers == 2
Callers == 1..NCallers

NCycles == 2
Cycles == 1..NCycles

Accounts == {"acc1", "acc2"}

\* ids of the meters / service charges an upstream list can contain
SubIds == {1, 2}

\* the clock runs from 0 to MaxTime
MaxTime == 3
\* the "content" of a response is one of 1..MaxContent (for a login, its expires_in)
MaxContent == 2
\* the "error" of a response envelope is one of 0..MaxErrorCode
MaxErrorCode == 2
\* api.async_authenticate() is called at most MaxAuthCalls times
MaxAuthCalls == 2
\* meter readings are 0..MaxReading
MaxReading == 1
\* the residential objects of a listing hold 0..MaxAccounts accounts in all
MaxAccounts == 2
\* a raw monetary amount is one of -MaxAmount..MaxAmount
MaxAmount == 1
\* async_authenticate runs NLogins times side by side
NLogins == 2
\* the data of the account are fetched MaxFetches times, by refreshes and updates
MaxFetches == 3
\* a zone-indexed object has 0..MaxZones zones
MaxZones == 2
\* a nullable text field is at most MaxLen characters long
MaxLen == 3
\* NRequests requests run side by side on one client
NRequests == 2

\* ---------------------------------------------------------------- classes
MeterCls == "EnergosbytPlusMeter"
ChargesCls == "EnergosbytPlusCharges"
ServiceChargesCls == "EnergosbytPlusServiceCharges"
AccountCls == "EnergosbytPlusAccount"
LastPaymentCls == "EnergosbytPlusLastPayment"

ChargesBase == "_EnergosbytPlusChargesEntityBase"

CoalescingClasses == {MeterCls, ChargesCls, ServiceChargesCls}

\* The class attribute _collective_update_futures a class resolves to: the
\* meter class defines its own dict, the two charges classes inherit the one
\* dict of their common base.
CollectiveDictPerClass(cls) == cls

CollectiveDict(cls) ==
    IF cls = MeterCls THEN MeterCls ELSE ChargesBase

Dicts == {MeterCls, ChargesBase, ChargesCls, ServiceChargesCls}

\* The upstream endpoint a class's coalesced getter requests.
DataKind(cls) == IF cls = MeterCls THEN "meters" ELSE "charges"

\* ---------------------------------------------------------------- failures
\* Outcomes of one upstream request.  Every failure the client raises itself
\* is the one class EnergosbytPlusException (api.py raises no finer class for
\* envelope errors); AuthErr is the envelope error the upstream answers to a
\* missing or expired token, UpstreamErr any other envelope error,
\* TransportErr the status check of the POST transport, ValidationErr a
\* reading rejected by Meter.async_push_indications.  RawErr is an exception
\* of a library (aiohttp, KeyError while decoding), which is not an
\* EnergosbytPlusException.
GetOutcomes == {"ok", "AuthErr", "UpstreamErr", "RawErr"}
PostOutcomes == {"ok", "AuthErr", "UpstreamErr", "TransportErr", "RawErr"}

IsEnergosbytPlusException(o) ==
    o \in {"AuthErr", "UpstreamErr", "TransportErr", "ValidationErr", "AuthFailed",
           "AuthError"}

\* with_auto_auth: what follows the n-th invocation of the wrapped operation
\* ending with outcome o.
WithAutoAuthRetryAll(n, o) ==
    IF o = "ok" THEN "return"
    ELSE IF IsEnergosbytPlusException(o) THEN "authenticate"
    ELSE "raise"

WithAutoAuthNoRetry(n, o) ==
    IF o = "ok" THEN "return" ELSE "raise"

with_auto_auth(n, o) ==
    IF o = "ok" THEN "return"
    ELSE IF n = 1 /\ IsEnergosbytPlusException(o) THEN "authenticate"
    ELSE "raise"

\* ---------------------------------------------------------------- state
VARIABLES
    upstream,   \* the portal: data kind -> account id -> ids in the list it would return now
    futures,    \* every asyncio.Future a coalescing getter created, by id
    slots,      \* _collective_update_futures: dict -> account id -> future
    cls,        \* caller: class of the entity the coroutine runs on
    op,         \* caller: "update" (async_update) or "push" (push_indications service)
    acct,       \* caller: the entity's account id
    valid,      \* caller: does the pushed reading pass Meter.async_push_indications' checks
    pc,         \* caller: position of the coroutine
    opCalls,    \* caller: invocations of the wrapped operation so far
    authCalls,  \* caller: api.async_authenticate() calls so far
    fut,        \* caller: future of the current getter call
    role,       \* caller: "leader" | "waiter" | "none" in the current getter call
    overlap,    \* caller: the upstream fetches in flight for the same data when it entered
    calls,      \* caller: finished invocations of the wrapped operation
    result,     \* caller: outcome of the whole with_auto_auth call
    update_delegators,  \* hass.data[DATA_UPDATE_DELEGATORS][entry_id]: the registered platforms
    final_config,       \* hass.data[DATA_FINAL_CONFIG][entry_id]
    entities,           \* hass.data[DATA_ENTITIES][entry_id]: class -> keys of its entities
    rpc,        \* cycle: position of async_refresh_api_data
    rcalls,     \* cycle: invocations of api.async_get_residential_objects
    rfail,      \* cycle: where the cycle's exception came from ("none" while it has none)
    tasks,      \* cycle: pair (account, class) -> the refresh task gathered for it
    added,      \* cycle: platform -> calls of the platform's add-entities callback
    created,    \* class -> key -> entities constructed for the key so far
    delivered,  \* class -> key -> times an entity of the key was handed to a callback
    now,        \* time()
    client,     \* the EnergosbytPlusAPI object: login type, token fields, login history
    auth,       \* the running or last api.async_authenticate() call
    http,       \* the last request the transport made: method, response, outcome
    meter,      \* the api.Meter object of a meter entity: zones and submission period
    push,       \* the running or last submission of readings for that meter
    events,     \* the result events fired on the bus
    setup,      \* the running or last async_setup_entry call
    raw,        \* a JSON object of the portal handed to a de_json decoder
    decoded,    \* what the decoder made of it ("none" before it ran)
    auths,      \* the api.async_authenticate() calls that run side by side on the client
    held,       \* the records the entities of one account hold, and the last fetch
    wire,       \* the client's request counter and the requests that run side by side
    entry       \* hass.data of the config entry, its platforms and its unload calls

coalescerVars == <<futures, slots>>
envVars == <<upstream>>
callerVars == <<cls, op, acct, valid, pc, opCalls, authCalls, fut, role, overlap, calls, result>>
configVars == <<update_delegators, final_config>>
refreshVars == <<update_delegators, final_config, entities, rpc, rcalls, rfail, tasks,
                 added, created, delivered>>
apiVars == <<now, client, auth, http>>
pushVars == <<meter, push, events>>
setupVars == <<setup, entry>>
decodeVars == <<raw, decoded>>
loginVars == <<auths, wire>>
storeVars == <<held>>
clientVars == <<apiVars, pushVars, setupVars, decodeVars, loginVars, storeVars>>
entityVars == <<upstream, coalescerVars, callerVars, refreshVars>>

\* ---------------------------------------------------------------- coalescer
\* A future is named after the coroutine that created it and the number of
\* the invocation in which it did: <<c, n>>.  NoFut is the missing dict key.
NoFut == <<>>
CallerFutIds == Callers \X {1, 2}
TaskFutIds == Cycles \X Accounts \X {MeterCls, ServiceChargesCls}
FutIds == CallerFutIds \cup TaskFutIds

NoSlots == [d \in Dicts |-> [a \in Accounts |-> NoFut]]

Unborn ==
    [dict |-> "none", kind |-> "none", acct |-> "none", state |-> "unborn",
     exc |-> "none", val |-> {}, fetch |-> "none"]

\* hass.loop.create_future(), with the request the leader then sends
NewFuture(d, k, a) ==
    [dict |-> d, kind |-> k, acct |-> a, state |-> "pending", exc |-> "none",
     val |-> {}, fetch |-> "running"]

\* the upstream fetches in flight for data kind k of account a
RunningFetches(k, a) ==
    {f \in FutIds : futures[f].kind = k /\ futures[f].acct = a /\ futures[f].fetch = "running"}

\* What the leader itself ends with: set_result / set_exception raise
\* asyncio.InvalidStateError when the future is no longer pending (it was
\* cancelled through a cancelled waiter).
LeaderOutcome(f, o) ==
    IF futures[f].state = "pending" THEN o ELSE "InvalidState"

SettledFutureResultOnError(f, o) ==
    LET F == futures[f] IN
    IF F.state # "pending" THEN [F EXCEPT !.fetch = o]
    ELSE [F EXCEPT !.state = "result", !.val = upstream[F.kind][F.acct], !.fetch = o]

\* The future after the leader's fetch ended with outcome o; a successful
\* fetch decodes the list the upstream holds at that moment.
SettledFuture(f, o) ==
    LET F == futures[f] IN
    IF F.state # "pending" THEN [F EXCEPT !.fetch = o]
    ELSE IF o = "ok"
         THEN [F EXCEPT !.state = "result", !.val = upstream[F.kind][F.acct], !.fetch = o]
         ELSE [F EXCEPT !.state = "exception", !.exc = o, !.fetch = o]

\* finally: del cls._collective_update_futures[account_id]
SlotsAfterLeaderKeepOnError(f, o) ==
    IF o = "ok" THEN [slots EXCEPT ![futures[f].dict][futures[f].acct] = NoFut]
    ELSE slots

SlotsAfterLeader(f, o) ==
    [slots EXCEPT ![futures[f].dict][futures[f].acct] = NoFut]

\* What a caller awaiting future f gets once f is done.
AwaitOutcome(f) ==
    CASE futures[f].state = "result" -> "ok"
      [] futures[f].state = "exception" -> futures[f].exc
      [] futures[f].state = "cancelled" -> "Cancelled"

\* ---------------------------------------------------------------- callers
\* hit: the invocation ended because the host cancelled this very coroutine
CallRecord(c, o, hit) ==
    [fut |-> fut[c], role |-> role[c], overlap |-> overlap[c], out |-> o, hit |-> hit]

\* The n-th invocation of caller c's operation ended with outcome o.
Finish(c, n, o, hit) ==
    LET next == with_auto_auth(n, o) IN
    /\ calls' = [calls EXCEPT ![c] = Append(@, CallRecord(c, o, hit))]
    /\ pc' = [pc EXCEPT ![c] = IF next = "authenticate" THEN "auth" ELSE "done"]
    /\ authCalls' = [authCalls EXCEPT ![c] = IF next = "authenticate" THEN @ + 1 ELSE @]
    /\ result' = [result EXCEPT ![c] = IF next = "authenticate" THEN @ ELSE o]

\* Caller c invokes its operation and runs to the first suspension point.
StartOp(c) ==
    /\ opCalls' = [opCalls EXCEPT ![c] = @ + 1]
    /\ IF op[c] = "push"
       THEN /\ UNCHANGED coalescerVars
            /\ fut' = [fut EXCEPT ![c] = NoFut]
            /\ role' = [role EXCEPT ![c] = "none"]
            /\ overlap' = [overlap EXCEPT ![c] = {}]
            /\ IF valid[c]
               THEN /\ pc' = [pc EXCEPT ![c] = "posting"]
                    /\ UNCHANGED <<authCalls, calls, result>>
               ELSE LET n == opCalls[c] + 1
                        next == with_auto_auth(n, "ValidationErr") IN
                    /\ calls' = [calls EXCEPT ![c] = Append(@,
                          [fut |-> NoFut, role |-> "none", overlap |-> {}, out |-> "ValidationErr",
                           hit |-> FALSE])]
                    /\ pc' = [pc EXCEPT ![c] = IF next = "authenticate" THEN "auth" ELSE "done"]
                    /\ authCalls' = [authCalls EXCEPT ![c] =
                          IF next = "authenticate" THEN @ + 1 ELSE @]
                    /\ result' = [result EXCEPT ![c] =
                          IF next = "authenticate" THEN @ ELSE "ValidationErr"]
       ELSE LET d == CollectiveDict(cls[c])
                k == DataKind(cls[c])
                a == acct[c]
                f == slots[d][a] IN
            /\ overlap' = [overlap EXCEPT ![c] = RunningFetches(k, a)]
            /\ UNCHANGED <<authCalls, calls, result>>
            /\ IF f = NoFut
               THEN /\ futures' = [futures EXCEPT ![<<c, opCalls[c] + 1>>] = NewFuture(d, k, a)]
                    /\ slots' = [slots EXCEPT ![d][a] = <<c, opCalls[c] + 1>>]
                    /\ fut' = [fut EXCEPT ![c] = <<c, opCalls[c] + 1>>]
                    /\ role' = [role EXCEPT ![c] = "leader"]
                    /\ pc' = [pc EXCEPT ![c] = "fetching"]
               ELSE /\ UNCHANGED coalescerVars
                    /\ fut' = [fut EXCEPT ![c] = f]
                    /\ role' = [role EXCEPT ![c] = "waiter"]
                    /\ pc' = [pc EXCEPT ![c] = "waiting"]

\* The host starts the coroutine: with_auto_auth's first invocation.
Invoke(c) ==
    /\ pc[c] = "idle"
    /\ StartOp(c)
    /\ UNCHANGED <<upstream, cls, op, acct, valid>>
    /\ UNCHANGED <<refreshVars, clientVars>>

\* The leader's upstream request returns.
FetchReturn(c, o) ==
    /\ pc[c] = "fetching"
    /\ futures' = [futures EXCEPT ![fut[c]] = SettledFuture(fut[c], o)]
    /\ slots' = SlotsAfterLeader(fut[c], o)
    /\ Finish(c, opCalls[c], LeaderOutcome(fut[c], o), FALSE)
    /\ UNCHANGED <<upstream, cls, op, acct, valid, opCalls, fut, role, overlap>>
    /\ UNCHANGED <<refreshVars, clientVars>>

\* A waiter is resumed by its done future.
WaiterResume(c) ==
    /\ pc[c] = "waiting"
    /\ futures[fut[c]].state # "pending"
    /\ Finish(c, opCalls[c], AwaitOutcome(fut[c]), FALSE)
    /\ UNCHANGED coalescerVars
    /\ UNCHANGED <<upstream, cls, op, acct, valid, opCalls, fut, role, overlap>>
    /\ UNCHANGED <<refreshVars, clientVars>>

\* The POST of api.async_push_indications returns.
PostReturn(c, o) ==
    /\ pc[c] = "posting"
    /\ Finish(c, opCalls[c], o, FALSE)
    /\ UNCHANGED coalescerVars
    /\ UNCHANGED <<upstream, cls, op, acct, valid, opCalls, fut, role, overlap>>
    /\ UNCHANGED <<refreshVars, clientVars>>

\* api.async_authenticate() returns; on success with_auto_auth invokes the
\* operation a second time.
AuthReturn(c, ok) ==
    /\ pc[c] = "auth"
    /\ IF ok
       THEN StartOp(c)
       ELSE /\ pc' = [pc EXCEPT ![c] = "done"]
            /\ result' = [result EXCEPT ![c] = "AuthFailed"]
            /\ UNCHANGED coalescerVars
            /\ UNCHANGED <<opCalls, authCalls, fut, role, overlap, calls>>
    /\ UNCHANGED <<upstream, cls, op, acct, valid>>
    /\ UNCHANGED <<refreshVars, clientVars>>

\* The host cancels the caller's task while it is suspended in its operation.
\* Task.cancel() cancels the future the task awaits: for a waiter that is the
\* shared future of the coalescer.  (Cancellation landing inside
\* async_authenticate belongs to authenticate's own steps.)
Cancel(c) ==
    /\ pc[c] \in {"fetching", "waiting", "posting"}
    /\ CASE pc[c] = "fetching" ->
              /\ futures' = [futures EXCEPT ![fut[c]] = SettledFuture(fut[c], "Cancelled")]
              /\ slots' = SlotsAfterLeader(fut[c], "Cancelled")
              /\ Finish(c, opCalls[c], LeaderOutcome(fut[c], "Cancelled"), TRUE)
         [] pc[c] = "waiting" ->
              /\ futures' = [futures EXCEPT ![fut[c]] =
                    IF @.state = "pending" THEN [@ EXCEPT !.state = "cancelled"] ELSE @]
              /\ UNCHANGED slots
              /\ Finish(c, opCalls[c], "Cancelled", TRUE)
         [] pc[c] = "posting" ->
              /\ UNCHANGED coalescerVars
              /\ Finish(c, opCalls[c], "Cancelled", TRUE)
    /\ UNCHANGED <<upstream, cls, op, acct, valid, opCalls, fut, role, overlap>>
    /\ UNCHANGED <<refreshVars, clientVars>>

\* ---------------------------------------------------------------- orchestrator
Platforms == {"sensor", "binary_sensor"}

\* the classes each platform module hands to make_common_async_setup_entry
PlatformClasses(p) ==
    IF p = "sensor" THEN {AccountCls, ChargesCls, ServiceChargesCls, MeterCls}
    ELSE {LastPaymentCls}

Classes == {AccountCls, ChargesCls, ServiceChargesCls, MeterCls, LastPaymentCls}

PlatformOf(c) == CHOOSE p \in Platforms : c \in PlatformClasses(p)

\* config_key of each entity class
ConfigKeys == {"accounts", "charges", "service_charges", "meters", "last_payment"}

ConfigKey(c) ==
    CASE c = AccountCls -> "accounts"
      [] c = ChargesCls -> "charges"
      [] c = ServiceChargesCls -> "service_charges"
      [] c = MeterCls -> "meters"
      [] c = LastPaymentCls -> "last_payment"

Pairs == Accounts \X Classes

\* Does cls.async_refresh_account take the arguments the orchestrator passes,
\* (hass, entities, account, config_entry, account_config)?  The last-payment
\* class declares (entities, account, config_entry, account_config): calling
\* it with five arguments raises TypeError at the call.
AcceptsOrchestratorCall(c) == c # LastPaymentCls

\* account_config = accounts_config.get(account_code), the default when None
ResolvedConfig(a) ==
    IF final_config.accounts[a].present
    THEN final_config.accounts[a]
    ELSE final_config.default

\* if account_config is False: continue
AccountEnabled(a) == ResolvedConfig(a).enabled

\* if account_config[entity_cls.config_key] is False: continue
ClassEnabled(a, c) == ConfigKey(c) \in ResolvedConfig(a).flags

\* the pairs the scheduling loop reaches the async_refresh_account call for
PairsToSchedule ==
    {t \in Pairs : /\ PlatformOf(t[2]) \in update_delegators
                   /\ AccountEnabled(t[1])
                   /\ ClassEnabled(t[1], t[2])}

\* platform_tasks.setdefault(platform, []) runs for every enabled account
PlatformsWithTaskList ==
    IF \E a \in Accounts : AccountEnabled(a) THEN update_delegators ELSE {}

ScheduleRaises == \E t \in PairsToSchedule : ~AcceptsOrchestratorCall(t[2])

\* key spaces of the classes
SubKeys == {<<a, i>> : a \in Accounts, i \in SubIds}
AccountKeys == {<<a>> : a \in Accounts}
Keys == AccountKeys \cup SubKeys

IsListClass(c) == c \in {MeterCls, ServiceChargesCls}

NoTask ==
    [st |-> "none", get |-> "none", chars |-> "none", fut |-> NoFut,
     res |-> "none", new |-> {}]

\* entities[entity_key] = entity
EntitiesAfterCreateNotStored(es, new) == es

EntitiesAfterCreate(es, new) == es \cup new

\* the for-loop of a list class's async_refresh_account over the fetched list
NewKeys(c, a, list) == {<<a, i>> : i \in list} \ entities[c]

\* the first step of the task of pair t in cycle r: up to its first await
\* that suspends, or to its end.  hm: the accounts whose listing record says
\* has_meters (with a residential object).  The charges getter is awaited
\* directly and so is entered in this step; the meter getter and the
\* characteristics request are children of a gather and start one loop
\* iteration later (TaskEnter).
FirstStep(r, t, hm) ==
    LET a == t[1]
        c == t[2] IN
    IF ~IsListClass(c)
    THEN [NoTask EXCEPT !.st = "done",
                        !.res = IF <<a>> \in entities[c] THEN "None" ELSE "new",
                        !.new = IF <<a>> \in entities[c] THEN {} ELSE {<<a>>}]
    ELSE IF c = MeterCls /\ a \notin hm
    THEN [NoTask EXCEPT !.st = "done", !.res = "None"]
    ELSE IF c = MeterCls
    THEN [NoTask EXCEPT !.st = "running", !.get = "entering", !.chars = "pending"]
    ELSE LET f == slots[CollectiveDict(c)][a] IN
         [NoTask EXCEPT !.st = "running",
                        !.get = IF f = NoFut THEN "fetching" ELSE "waiting",
                        !.fut = IF f = NoFut THEN <<r, a, c>> ELSE f]

\* the task after its getter came to getNow and its characteristics request
\* to charsNow ("none": not requested): gather raises the first failure while
\* the other child runs on, and the loop over the list runs when everything
\* has arrived.  A finished task keeps its getter only while that getter is
\* still fetching.
TaskAfter(T, getNow, charsNow) ==
    IF T.st # "running"
    THEN [T EXCEPT !.get = "none", !.fut = NoFut]
    ELSE IF getNow = "err" \/ charsNow = "err"
    THEN [T EXCEPT !.st = "done", !.res = "raised", !.chars = "none",
                   !.get = IF getNow = "fetching" THEN "fetching" ELSE "none",
                   !.fut = IF getNow = "fetching" THEN T.fut ELSE NoFut]
    ELSE IF getNow = "ok" /\ charsNow \in {"ok", "none"}
    THEN [T EXCEPT !.st = "looping", !.get = "none", !.chars = "none", !.fut = NoFut]
    ELSE [T EXCEPT !.get = getNow, !.chars = charsNow]

\* One step of task t of cycle r that brought it to (getNow, charsNow).
TaskProgress(r, t, getNow, charsNow) ==
    LET T == TaskAfter(tasks[r][t], getNow, charsNow)
        a == t[1]
        c == t[2]
        new == NewKeys(c, a, futures'[tasks[r][t].fut].val) IN
    IF T.st = "looping"
    THEN /\ tasks' = [tasks EXCEPT ![r][t] =
                [T EXCEPT !.st = "done",
                          !.res = IF new = {} THEN "None" ELSE "new",
                          !.new = new]]
         /\ entities' = [entities EXCEPT ![c] = EntitiesAfterCreate(@, new)]
         /\ created' = [created EXCEPT ![c] =
                [k \in Keys |-> IF k \in new THEN @[k] + 1 ELSE @[k]]]
    ELSE /\ tasks' = [tasks EXCEPT ![r][t] = T]
         /\ UNCHANGED <<entities, created>>

\* asyncio.gather of the cycle: done when every gathered task is done
GatherCompleteAny(r) == \E t \in Pairs : tasks[r][t].st = "done"

GatherComplete(r) == \A t \in Pairs : tasks[r][t].st \in {"none", "done"}

\* the entities (by key) that the tasks of class c returned in cycle r
NewEntitiesOf(r, c) == UNION {tasks[r][<<a, c>>].new : a \in Accounts}

\* all_new_entities of platform p in cycle r
AllNewEntities(r, p) == UNION {{c} \X NewEntitiesOf(r, c) : c \in PlatformClasses(p)}

\* async_refresh_api_data is called.  The calls are numbered in the order
\* they are made.
RefreshStart(r) ==
    /\ rpc[r] = "idle"
    /\ \A q \in Cycles : q < r => rpc[q] # "idle"
    /\ rpc' = [rpc EXCEPT ![r] = "listing"]
    /\ rcalls' = [rcalls EXCEPT ![r] = 1]
    /\ UNCHANGED <<upstream, coalescerVars, callerVars, clientVars, configVars, entities, rfail,
                   tasks, added, created, delivered>>

\* The listing request returns: with_auto_auth decides (its attempt number
\* is a local that ends with it); after a successful
\* listing the scheduling loop runs and the gathers are created.
ListingReturn(r, o) ==
    /\ rpc[r] = "listing"
    /\ rcalls' = [rcalls EXCEPT ![r] =
          IF with_auto_auth(@, o) = "authenticate" THEN @ ELSE 0]
    /\ LET next == with_auto_auth(rcalls[r], o) IN
       CASE next = "authenticate" ->
              /\ rpc' = [rpc EXCEPT ![r] = "auth"]
              /\ UNCHANGED <<rfail, tasks>>
         [] next = "raise" ->
              /\ rpc' = [rpc EXCEPT ![r] = "failed"]
              /\ rfail' = [rfail EXCEPT ![r] = "listing"]
              /\ UNCHANGED tasks
         [] next = "return" ->
              IF update_delegators = {}
              THEN /\ rpc' = [rpc EXCEPT ![r] = "done"]
                   /\ UNCHANGED <<rfail, tasks>>
              ELSE IF ScheduleRaises
              THEN /\ rpc' = [rpc EXCEPT ![r] = "failed"]
                   /\ rfail' = [rfail EXCEPT ![r] = "schedule"]
                   /\ UNCHANGED tasks
              ELSE IF PlatformsWithTaskList = {}
              THEN /\ rpc' = [rpc EXCEPT ![r] = "done"]
                   /\ UNCHANGED <<rfail, tasks>>
              ELSE /\ rpc' = [rpc EXCEPT ![r] = "gathering"]
                   /\ tasks' = [tasks EXCEPT ![r] =
                          [t \in Pairs |-> IF t \in PairsToSchedule
                                           THEN [NoTask EXCEPT !.st = "scheduled"]
                                           ELSE NoTask]]
                   /\ UNCHANGED rfail
    /\ UNCHANGED <<upstream, coalescerVars, callerVars, clientVars, configVars, entities,
                   added, created, delivered>>

\* api.async_authenticate() of the listing's with_auto_auth returns.
RefreshAuthReturn(r, ok) ==
    /\ rpc[r] = "auth"
    /\ IF ok
       THEN /\ rpc' = [rpc EXCEPT ![r] = "listing"]
            /\ rcalls' = [rcalls EXCEPT ![r] = 2]
            /\ UNCHANGED rfail
       ELSE /\ rpc' = [rpc EXCEPT ![r] = "failed"]
            /\ rfail' = [rfail EXCEPT ![r] = "auth"]
            /\ rcalls' = [rcalls EXCEPT ![r] = 0]
    /\ UNCHANGED <<upstream, coalescerVars, callerVars, clientVars, configVars, entities,
                   tasks, added, created, delivered>>

\* The event loop runs the first step of every task the gathers created.
\* The tasks were queued by one synchronous piece of code, so their first
\* steps run back to back, and no two of them touch the same key or slot.
StartTasks(r, hm) ==
    /\ rpc[r] = "gathering"
    /\ \E t \in Pairs : tasks[r][t].st = "scheduled"
    /\ LET started == {t \in Pairs : tasks[r][t].st = "scheduled"}
           step == [t \in started |-> FirstStep(r, t, hm)]
           leaders == {t \in started : step[t].get = "fetching"}
           newOf(c) == UNION {step[t].new : t \in {u \in started : u[2] = c}} IN
       /\ tasks' = [tasks EXCEPT ![r] =
              [t \in Pairs |-> IF t \in started THEN step[t] ELSE @[t]]]
       /\ futures' = [f \in FutIds |->
              IF \E t \in leaders : f = <<r, t[1], t[2]>>
              THEN NewFuture(CollectiveDict(f[3]), DataKind(f[3]), f[2])
              ELSE futures[f]]
       /\ slots' = [d \in Dicts |-> [a \in Accounts |->
              IF \E t \in leaders : t[1] = a /\ CollectiveDict(t[2]) = d
              THEN <<r, a, (CHOOSE t \in leaders : t[1] = a /\ CollectiveDict(t[2]) = d)[2]>>
              ELSE slots[d][a]]]
       /\ entities' = [c \in Classes |-> EntitiesAfterCreate(entities[c], newOf(c))]
       /\ created' = [c \in Classes |->
              [k \in Keys |-> IF k \in newOf(c) THEN created[c][k] + 1 ELSE created[c][k]]]
    /\ UNCHANGED <<upstream, callerVars, clientVars, configVars, rpc, rcalls, rfail, added, delivered>>

\* The meter getter that a meter task's gather started is entered: it takes
\* the slot's future, or creates one and sends the request.
TaskEnter(r, t) ==
    /\ tasks[r][t].get = "entering"
    /\ LET a == t[1]
           d == CollectiveDict(t[2])
           f == slots[d][a] IN
       IF f = NoFut
       THEN /\ futures' = [futures EXCEPT ![<<r, a, t[2]>>] = NewFuture(d, DataKind(t[2]), a)]
            /\ slots' = [slots EXCEPT ![d][a] = <<r, a, t[2]>>]
            /\ tasks' = [tasks EXCEPT ![r][t].get = "fetching", ![r][t].fut = <<r, a, t[2]>>]
       ELSE /\ tasks' = [tasks EXCEPT ![r][t].get = "waiting", ![r][t].fut = f]
            /\ UNCHANGED coalescerVars
    /\ UNCHANGED <<upstream, callerVars, clientVars, configVars, entities, rpc, rcalls, rfail,
                   added, created, delivered>>

\* The request of a task that leads a coalesced fetch returns.
TaskFetchReturn(r, t, o) ==
    /\ tasks[r][t].get = "fetching"
    /\ futures' = [futures EXCEPT ![tasks[r][t].fut] = SettledFuture(tasks[r][t].fut, o)]
    /\ slots' = SlotsAfterLeader(tasks[r][t].fut, o)
    /\ TaskProgress(r, t,
          IF LeaderOutcome(tasks[r][t].fut, o) = "ok" THEN "ok" ELSE "err",
          tasks[r][t].chars)
    /\ UNCHANGED <<upstream, callerVars, clientVars, configVars, rpc, rcalls, rfail, added, delivered>>

\* A task waiting on another cycle's fetch is resumed.
TaskWaiterResume(r, t) ==
    /\ tasks[r][t].get = "waiting"
    /\ futures[tasks[r][t].fut].state # "pending"
    /\ UNCHANGED coalescerVars
    /\ TaskProgress(r, t,
          IF AwaitOutcome(tasks[r][t].fut) = "ok" THEN "ok" ELSE "err",
          tasks[r][t].chars)
    /\ UNCHANGED <<upstream, callerVars, clientVars, configVars, rpc, rcalls, rfail, added, delivered>>

\* The meter task's api.async_get_meter_characteristics() returns.
TaskCharsReturn(r, t, ok) ==
    /\ tasks[r][t].st = "running"
    /\ tasks[r][t].chars = "pending"
    /\ tasks[r][t].get # "entering"
    /\ UNCHANGED coalescerVars
    /\ TaskProgress(r, t, tasks[r][t].get, IF ok THEN "ok" ELSE "err")
    /\ UNCHANGED <<upstream, callerVars, clientVars, configVars, rpc, rcalls, rfail, added, delivered>>

\* The provider adds a meter or a service to an account whose list some cycle
\* reads.
UpstreamGrows(k, a) ==
    /\ upstream[k][a] # SubIds
    /\ \E r \in Cycles, c \in {MeterCls, ServiceChargesCls} :
          DataKind(c) = k /\ tasks[r][<<a, c>>].st # "none"
    /\ upstream' = [upstream EXCEPT ![k][a] = SubIds]
    /\ UNCHANGED <<coalescerVars, callerVars, clientVars, refreshVars>>

\* The outer gather is done: one pass over the platforms calls the
\* add-entities callback of each platform that has new entities.
GatherDone(r) ==
    /\ rpc[r] = "gathering"
    /\ GatherComplete(r)
    /\ rpc' = [rpc EXCEPT ![r] = "done"]
    /\ added' = [added EXCEPT ![r] =
          [p \in Platforms |-> IF AllNewEntities(r, p) # {} THEN @[p] + 1 ELSE @[p]]]
    /\ delivered' = [c \in Classes |->
          LET batch == {e[2] : e \in {d \in AllNewEntities(r, PlatformOf(c)) : d[1] = c}} IN
          [k \in Keys |-> IF k \in batch THEN delivered[c][k] + 1 ELSE delivered[c][k]]]
    /\ UNCHANGED <<upstream, coalescerVars, callerVars, clientVars, configVars, entities, rcalls,
                   rfail, tasks, created>>

\* ---------------------------------------------------------------- api client
LOGIN_TYPE_CONTACT == "contact"
LOGIN_TYPE_ACCOUNT == "account"

\* expected_status of _async_api_post_request
ExpectedStatus == 200

\* What the portal can answer to one request: no answer at all (the session
\* raises aiohttp.ClientError), or a status and a body; a body is valid JSON
\* holding an envelope {error, content}, or is not JSON: served with another
\* content type (response.json() raises aiohttp.ContentTypeError) or
\* malformed (json.JSONDecodeError).
Statuses == {ExpectedStatus, 500}
ErrorCodes == 0..MaxErrorCode
Contents == 1..MaxContent

Responses ==
    {[status |-> 0, body |-> "none", error |-> 0, content |-> 0]} \cup
    {[status |-> st, body |-> b, error |-> 0, content |-> 0] :
        st \in Statuses, b \in {"not_json_type", "bad_json"}} \cup
    {[status |-> st, body |-> "json", error |-> e, content |-> c] :
        st \in Statuses, e \in ErrorCodes, c \in Contents}

Returned(c) == [kind |-> "return", code |-> 0, content |-> c]
Raised(k, code) == [kind |-> k, code |-> code, content |-> 0]

\* if data["error"] != 0: raise EnergosbytPlusException(f"request error ...")
\* return data["content"]
EnvelopeOutcomeIgnoringError(resp) == Returned(resp.content)

EnvelopeOutcome(resp) ==
    IF resp.error # 0 THEN Raised("UpstreamErr", resp.error)
    ELSE Returned(resp.content)

\* data = await response.json()
JsonOutcome(resp) ==
    IF resp.body = "json" THEN EnvelopeOutcome(resp)
    ELSE Raised("RawErr", 0)

\* _async_api_post_request
PostRequestOutcome(resp) ==
    IF resp.body = "none" THEN Raised("RawErr", 0)
    ELSE IF resp.status # ExpectedStatus THEN Raised("TransportErr", 0)
    ELSE IF resp.body = "not_json_type" THEN Raised("TransportErr", 0)
    ELSE JsonOutcome(resp)

\* _async_api_get_request
GetRequestOutcome(resp) ==
    IF resp.body = "none" THEN Raised("RawErr", 0)
    ELSE JsonOutcome(resp)

RequestOutcome(method, resp) ==
    IF method = "POST" THEN PostRequestOutcome(resp) ELSE GetRequestOutcome(resp)

NoRequest == [method |-> "none", resp |-> [status |-> 0, body |-> "none", error |-> 0, content |-> 0],
              out |-> Raised("none", 0), expired |-> FALSE]

\* time() > self._token_expires_at
TokenExpiredAtDeadline(t, c) == t >= c.token_expires_at

is_token_expired(t, c) == t > c.token_expires_at

TokenState(t, c) ==
    IF c.logins = 0 THEN "unauthenticated"
    ELSE IF is_token_expired(t, c) THEN "expired" ELSE "authenticated"

\* EnergosbytPlusAPI.__init__
NewClient(numeric, login_type) ==
    [numeric |-> numeric, login_type |-> login_type,
     access_token |-> 0, access_token_type |-> 0, refresh_token |-> 0,
     token_expires_at |-> -1, inferred |-> FALSE,
     logins |-> 0, login_at |-> -1, expires_in |-> 0, before |-> "none"]

NoAuth ==
    [pc |-> "idle", n |-> 0, fixed |-> "none", login_type |-> "none",
     attempt_different_login_type |-> FALSE, sent |-> <<>>, failed |-> <<>>, result |-> "none"]

\* the first lines of async_authenticate: the login type of the first request
FirstLoginTypeInferredAgain(c) ==
    IF c.numeric THEN LOGIN_TYPE_ACCOUNT ELSE LOGIN_TYPE_CONTACT

FirstLoginType(c) ==
    IF c.login_type # "none" THEN c.login_type
    ELSE IF c.numeric THEN LOGIN_TYPE_ACCOUNT ELSE LOGIN_TYPE_CONTACT

AttemptDifferentLoginTypeNever(c) == FALSE

AttemptDifferentLoginType(c) == c.login_type = "none" /\ c.numeric

\* what async_authenticate raises when the request of the given attempt
\* failed with outcome o and no further attempt follows
AuthFailure(attempt, o) == IF attempt = "first" THEN "AuthError" ELSE o.kind

\* api.async_authenticate() is called: it sends the first login request.
AuthStarted(c, n) ==
    [pc |-> "first", n |-> n, fixed |-> c.login_type,
     login_type |-> FirstLoginType(c),
     attempt_different_login_type |-> AttemptDifferentLoginType(c),
     sent |-> <<FirstLoginType(c)>>, failed |-> <<>>, result |-> "none"]

Authenticate ==
    /\ auth.pc \in {"idle", "done"}
    /\ auth.n < MaxAuthCalls
    /\ auth' = AuthStarted(client, auth.n + 1)
    /\ UNCHANGED <<now, client, http, entityVars, loginVars, storeVars, pushVars, setupVars, decodeVars>>

\* A login request is answered: the token fields are stored, or the fallback
\* request is sent, or async_authenticate raises.
\* The client after the call a of async_authenticate got the outcome o of a
\* login request at time t: a login response sets the login type, if none
\* was fixed, and the four token fields, which the model names after the call
\* whose response they come from; the history fields are the model's.
ClientAfterLoginClearing(c, a, o, t) ==
    IF o.kind # "return" THEN [c EXCEPT !.access_token = 0]
    ELSE [c EXCEPT !.access_token = a.n]

ClientAfterLogin(c, a, o, t) ==
    IF o.kind # "return" THEN c
    ELSE [c EXCEPT
            !.login_type = IF @ = "none" THEN a.login_type ELSE @,
            !.inferred = @ \/ c.login_type = "none",
            !.access_token = a.n,
            !.access_token_type = a.n,
            !.refresh_token = a.n,
            !.token_expires_at = t + o.content,
            !.logins = @ + 1, !.login_at = t, !.expires_in = o.content,
            !.before = TokenState(t, c)]

\* The call a of async_authenticate after that outcome.
AuthAfterLogin(a, o) ==
    IF o.kind = "return" THEN [a EXCEPT !.pc = "done", !.result = "ok"]
    ELSE IF a.pc = "first" /\ a.attempt_different_login_type
    THEN [a EXCEPT !.pc = "second",
                   !.login_type = LOGIN_TYPE_CONTACT,
                   !.sent = Append(@, LOGIN_TYPE_CONTACT),
                   !.failed = Append(@, o.kind)]
    ELSE [a EXCEPT !.pc = "done",
                   !.failed = Append(@, o.kind),
                   !.result = AuthFailure(a.pc, o)]

LoginEffects(resp) ==
    /\ auth.pc \in {"first", "second"}
    /\ LET o == PostRequestOutcome(resp) IN
       /\ http' = [method |-> "POST", resp |-> resp, out |-> o,
                   expired |-> is_token_expired(now, client)]
       /\ auth' = AuthAfterLogin(auth, o)
       /\ client' = ClientAfterLogin(client, auth, o, now)

LoginReturn(resp) ==
    /\ LoginEffects(resp)
    /\ UNCHANGED <<now, entityVars, loginVars, storeVars, pushVars, setupVars, decodeVars>>

\* _get_request_headers(authenticated, headers) raises
\* UnauthenticatedException "if self.is_token_expired is None"; the property
\* is a bool.
HeadersRaiseWhenExpired(t, c, authenticated) == authenticated /\ is_token_expired(t, c)

HeadersRaise(t, c, authenticated) == authenticated /\ is_token_expired(t, c) \notin BOOLEAN

\* A request of a data method, all of which pass authenticated=True.
AuthenticatedOutcome(t, c, method, resp) ==
    IF HeadersRaise(t, c, TRUE) THEN Raised("UnauthenticatedException", 0)
    ELSE RequestOutcome(method, resp)

\* A data method of the client makes a request and gets its answer.
Request(method, resp) ==
    /\ auth.pc \in {"idle", "done"}
    /\ http' = [method |-> method, resp |-> resp,
                out |-> AuthenticatedOutcome(now, client, method, resp),
                expired |-> is_token_expired(now, client)]
    /\ UNCHANGED <<now, client, auth, entityVars, loginVars, storeVars, pushVars, setupVars, decodeVars>>

\* Time passes.
Tick ==
    /\ now < MaxTime
    /\ now' = now + 1
    /\ UNCHANGED <<client, auth, http, entityVars, loginVars, storeVars, pushVars, setupVars, decodeVars>>

ApiIdle ==
    /\ now = 0
    /\ client = NewClient(TRUE, "none")
    /\ auth = NoAuth
    /\ http = NoRequest

\* ---------------------------------------------------------------- readings
\* A meter has the zones t1..t<zoning>; a value the portal did not give is
\* None, written NoValue.
ZoneIds == {"t1", "t2"}
ZoneIndex(z) == IF z = "t1" THEN 1 ELSE 2
NoValue == -1
ReadingValues == 0..MaxReading
NoReadings == [z \in ZoneIds |-> NoValue]
NoZone == [submitted |-> NoValue, last_submitted |-> NoValue, accepted |-> NoValue]

\* Meter.zone_ids
zone_ids(m) == {z \in ZoneIds : ZoneIndex(z) <= m.zoning}

\* the zones a call submits a reading for
Submitted(r) == {z \in ZoneIds : r[z] # NoValue}

\* x or 0.0
OrZero(v) == IF v = NoValue THEN 0 ELSE v

Max2(a, b) == IF a >= b THEN a ELSE b

\* max(zone.submitted or 0.0, zone.last_submitted or 0.0, zone.accepted or 0.0)
ZoneMaxValueAcceptedOnly(zone) == OrZero(zone.accepted)

ZoneMaxValue(zone) ==
    Max2(OrZero(zone.submitted), Max2(OrZero(zone.last_submitted), OrZero(zone.accepted)))

\* The checks of Meter.async_push_indications, in their order; "ok" when the
\* request is to be sent.
ValidateIndications(m, r, ignore_periods, ignore_values) ==
    IF Submitted(r) \ zone_ids(m) # {} THEN "invalid zones"
    ELSE IF ~(ignore_periods \/ m.active) THEN "period not active"
    ELSE IF ~ignore_values /\ \E z \in Submitted(r) : r[z] < ZoneMaxValue(m.zones[z])
    THEN "less than zone max"
    ELSE "ok"

\* EnergosbytPlusMeter._get_real_indications: "ValueError" for a zone the
\* meter does not have, else the readings, made absolute when incremental.
RealIndicationsValid(m, call) == Submitted(call.indications) \subseteq zone_ids(m)

RealIndications(m, call) ==
    [z \in ZoneIds |->
        IF call.indications[z] = NoValue THEN NoValue
        ELSE IF ~call.incremental THEN call.indications[z]
        ELSE call.indications[z] +
             (IF OrZero(m.zones[z].submitted) # 0 THEN m.zones[z].submitted
              ELSE OrZero(m.zones[z].accepted))]

Calls ==
    {[indications |-> r, ignore_periods |-> ip, ignore_values |-> iv, incremental |-> inc] :
        r \in {x \in [ZoneIds -> ReadingValues \cup {NoValue}] : Submitted(x) # {}},
        ip \in BOOLEAN, iv \in BOOLEAN, inc \in BOOLEAN}

NoPush ==
    [pc |-> "idle", via |-> "none",
     call |-> [indications |-> NoReadings, ignore_periods |-> FALSE,
               ignore_values |-> FALSE, incremental |-> FALSE],
     real |-> NoReadings, opCalls |-> 0, sent |-> 0, authCalls |-> 0,
     result |-> "none", raised |-> FALSE]

\* _fire_callback_event: the event of a finished service call
ResultEvent(p) ==
    [success |-> p.result = "ok", indications |-> p.real,
     call_params |-> p.call.indications,
     comment |-> IF p.result = "ok" THEN "submitted"
                 ELSE IF IsEnergosbytPlusException(p.result) THEN "API error"
                 ELSE "Unknown error"]

\* the finally clause of async_service_push_indications
EventsAfterServiceOnSuccessOnly(p) == IF p.result = "ok" THEN <<ResultEvent(p)>> ELSE <<>>

EventsAfterService(p) == <<ResultEvent(p)>>

\* The submission p ends with outcome o of the n-th invocation of
\* Meter.async_push_indications: a direct caller gets o; the service goes
\* through with_auto_auth and fires its event when it is left.
PushEnds(p, o) ==
    LET next == IF p.via = "direct" THEN (IF o = "ok" THEN "return" ELSE "raise")
                ELSE with_auto_auth(p.opCalls, o) IN
    IF next = "authenticate"
    THEN /\ push' = [p EXCEPT !.pc = "auth", !.authCalls = @ + 1]
         /\ UNCHANGED events
    ELSE LET q == [p EXCEPT !.pc = "done", !.result = o, !.raised = o # "ok"] IN
         /\ push' = q
         /\ events' = IF p.via = "service" THEN events \o EventsAfterService(q) ELSE events

\* Meter.async_push_indications is invoked with the readings p.real: it
\* validates, and sends the request when the validation passes.
InvokePush(p) ==
    LET q == [p EXCEPT !.opCalls = @ + 1]
        v == ValidateIndications(meter, q.real, q.call.ignore_periods, q.call.ignore_values) IN
    IF v = "ok"
    THEN /\ push' = [q EXCEPT !.pc = "posting", !.sent = @ + 1]
         /\ UNCHANGED events
    ELSE PushEnds(q, "ValidationErr")

\* The push_indications service of the meter entity is called.
ServiceCall(call) ==
    /\ push.pc = "idle"
    /\ LET p == [push EXCEPT !.via = "service", !.call = call] IN
       IF RealIndicationsValid(meter, call)
       THEN InvokePush([p EXCEPT !.real = RealIndications(meter, call)])
       ELSE LET q == [p EXCEPT !.pc = "done", !.result = "ValueError", !.raised = TRUE] IN
            /\ push' = q
            /\ events' = events \o EventsAfterService(q)
    /\ UNCHANGED <<meter, apiVars, entityVars, loginVars, storeVars, setupVars, decodeVars>>

\* Meter.async_push_indications is called by other code, with the readings
\* as given.
MeterPushCall(call) ==
    /\ push.pc = "idle"
    /\ ~call.incremental
    /\ InvokePush([push EXCEPT !.via = "direct", !.call = call, !.real = call.indications])
    /\ UNCHANGED <<meter, apiVars, entityVars, loginVars, storeVars, setupVars, decodeVars>>

\* The request to the send endpoint is answered.
SendReturn(o) ==
    /\ push.pc = "posting"
    /\ PushEnds(push, o)
    /\ UNCHANGED <<meter, apiVars, entityVars, loginVars, storeVars, setupVars, decodeVars>>

\* api.async_authenticate() of the service's with_auto_auth returns.
PushAuthReturn(ok) ==
    /\ push.pc = "auth"
    /\ IF ok
       THEN InvokePush(push)
       ELSE LET q == [push EXCEPT !.pc = "done", !.result = "AuthFailed", !.raised = TRUE] IN
            /\ push' = q
            /\ events' = events \o EventsAfterService(q)
    /\ UNCHANGED <<meter, apiVars, entityVars, loginVars, storeVars, setupVars, decodeVars>>

NewMeter(zoning, t1, t2, active) ==
    [zoning |-> zoning, active |-> active,
     zones |-> [z \in ZoneIds |-> IF ZoneIndex(z) > zoning THEN NoZone
                                  ELSE IF z = "t1" THEN t1 ELSE t2]]

PushIdle ==
    /\ meter = NewMeter(1, NoZone, NoZone, TRUE)
    /\ push = NoPush
    /\ events = <<>>

\* ---------------------------------------------------------------- logins
\* Calls of async_authenticate that run side by side on one client, as the
\* with_auto_auth wrappers of several coroutines start them.  A call runs
\* without suspension up to its login request and from the answer to its end.
LoginCalls == 1..NLogins

LoginsStart(i) ==
    /\ auths[i].pc = "idle"
    /\ auths' = [auths EXCEPT ![i] = AuthStarted(client, i)]
    /\ UNCHANGED <<wire, apiVars, entityVars, pushVars, setupVars, decodeVars, storeVars>>

LoginsReturn(i, resp) ==
    /\ auths[i].pc \in {"first", "second"}
    /\ LET o == PostRequestOutcome(resp) IN
       /\ http' = [method |-> "POST", resp |-> resp, out |-> o,
                   expired |-> is_token_expired(now, client)]
       /\ auths' = [auths EXCEPT ![i] = AuthAfterLogin(auths[i], o)]
       /\ client' = ClientAfterLogin(client, auths[i], o, now)
    /\ UNCHANGED <<wire, now, auth, entityVars, pushVars, setupVars, decodeVars, storeVars>>

\* ---------------------------------------------------------------- numbering
\* Requests of the data methods that run side by side on one client, as the
\* coroutines of several entities start them.  _request_counter is the
\* client's counter; a request keeps its number in the local
\* request_counter; "order" lists the requests in the order they started.
NoWire ==
    [_request_counter |-> 0,
     calls |-> [i \in 1..NRequests |->
                  [pc |-> "idle", method |-> "none", request_counter |-> 0,
                   out |-> "none"]],
     order |-> <<>>]

\* self._request_counter = request_counter
CounterAfterStartNotStored(w, request_counter) == w._request_counter

CounterAfterStart(w, request_counter) == request_counter

\* _async_api_post_request or _async_api_get_request up to the request the
\* session sends: the number is taken and stored, the headers are built.
RequestStart(i, method) ==
    /\ wire.calls[i].pc = "idle"
    /\ LET request_counter == wire._request_counter + 1
           raises == HeadersRaise(now, client, TRUE) IN
       wire' = [wire EXCEPT
          !._request_counter = CounterAfterStart(wire, request_counter),
          !.calls[i] = [pc |-> IF raises THEN "done" ELSE "sent",
                        method |-> method,
                        request_counter |-> request_counter,
                        out |-> IF raises THEN "UnauthenticatedException"
                                ELSE "none"],
          !.order = Append(@, i)]
    /\ UNCHANGED <<auths, apiVars, entityVars, pushVars, setupVars, decodeVars, storeVars>>

\* The session's answer to the request arrives and the helper returns or
\* raises.
RequestReturn(i, resp) ==
    /\ wire.calls[i].pc = "sent"
    /\ LET o == RequestOutcome(wire.calls[i].method, resp) IN
       /\ wire' = [wire EXCEPT !.calls[i].pc = "done", !.calls[i].out = o.kind]
       /\ http' = [method |-> wire.calls[i].method, resp |-> resp, out |-> o,
                   expired |-> is_token_expired(now, client)]
    /\ UNCHANGED <<auths, now, client, auth, entityVars, pushVars, setupVars, decodeVars,
                   storeVars>>

LoginIdle == auths = [i \in LoginCalls |-> NoAuth] /\ wire = NoWire

\* ---------------------------------------------------------------- records
\* The meter and service-charge entities of one account and the record each
\* holds.  A record is named after the fetch that decoded it (1, 2, ...);
\* "record" is the attribute the entity's state is computed from (_meter,
\* _service_charge), "attr" the attribute service_charge, "written" the
\* record of the last state write.
StoreClasses == {MeterCls, ServiceChargesCls}

\* "hosted" is the entity's place in the host ("no" before it is added,
\* "added", "removed"), "updater" whether _entity_updater holds a cancel
\* callback, "timers" the interval timers of the entity the scheduler runs,
\* "removing" whether a task of async_remove() is scheduled, "updated" the
\* last fetch of async_update_internal and whether it listed the meter.
NoEntity ==
    [exists |-> FALSE, enabled |-> FALSE, record |-> 0, attr |-> 0,
     scheduled |-> FALSE, written |-> 0,
     hosted |-> "no", updater |-> FALSE, timers |-> 0, removing |-> FALSE,
     updated |-> [v |-> 0, listed |-> FALSE]]

NoHeld ==
    [fetches |-> 0,
     last |-> [c \in StoreClasses |-> [ids |-> {}, v |-> 0]],
     entities |-> [c \in StoreClasses |-> [i \in SubIds |-> NoEntity]]]

\* the else branch of the loop of cls.async_refresh_account: the entity of a
\* fetched meter or service charge exists already
RefreshedEntity(c, e, v) ==
    IF c = MeterCls
    THEN [e EXCEPT !.scheduled = @ \/ e.enabled, !.record = v]
    ELSE IF e.enabled THEN [e EXCEPT !.attr = v, !.scheduled = TRUE]
    ELSE e

\* cls.async_refresh_account completes for the account with a fetch that
\* holds the meters or service charges ids; an entity it constructs is
\* enabled or disabled in the entity registry.
StoreRefresh(c, ids, enabled) ==
    /\ held.fetches < MaxFetches
    /\ LET v == held.fetches + 1 IN
       held' = [held EXCEPT
          !.fetches = v,
          !.last[c] = [ids |-> ids, v |-> v],
          !.entities[c] = [i \in SubIds |->
              IF i \notin ids THEN @[i]
              ELSE IF ~@[i].exists
              THEN [NoEntity EXCEPT !.exists = TRUE, !.enabled = enabled, !.record = v]
              ELSE RefreshedEntity(c, @[i], v)]]
    /\ UNCHANGED <<apiVars, entityVars, pushVars, setupVars, decodeVars, loginVars>>

\* The state refresh that async_schedule_update_ha_state scheduled runs: the
\* entity's state is computed from the record it holds.
StoreWriteState(c, i) ==
    /\ held.entities[c][i].scheduled
    /\ held' = [held EXCEPT !.entities[c][i].scheduled = FALSE,
                            !.entities[c][i].written = held.entities[c][i].record]
    /\ UNCHANGED <<apiVars, entityVars, pushVars, setupVars, decodeVars, loginVars>>

\* ---------------------------------------------------------------- lifecycle
\* updater_stop: the cancel callback is called and forgotten
updater_stop_forgetting(e) == [e EXCEPT !.updater = FALSE]

updater_stop(e) ==
    IF e.updater THEN [e EXCEPT !.timers = @ - 1, !.updater = FALSE] ELSE e

\* updater_restart: updater_stop(), then async_track_time_interval installs a
\* timer and its cancel callback is kept
updater_restart(e) ==
    [updater_stop(e) EXCEPT !.timers = @ + 1, !.updater = TRUE]

\* async_added_to_hass: the host adds an entity a platform callback received;
\* an entity disabled in the registry is not added.
async_added_to_hass(c, i) ==
    LET e == held.entities[c][i] IN
    /\ e.exists /\ e.enabled /\ e.hosted = "no"
    /\ held' = [held EXCEPT
          !.entities[c][i] = [updater_restart(e) EXCEPT !.hosted = "added"]]
    /\ UNCHANGED <<apiVars, entityVars, pushVars, setupVars, decodeVars, loginVars>>

\* The entity map of a class is a dict key -> entity; the loop of
\* async_will_remove_from_hass enumerates it, which yields its keys, and
\* compares each with the entity by identity.
MapKey(i) == [kind |-> "key", id |-> i]
MapEntity(i) == [kind |-> "entity", id |-> i]

remove_indices_of_values(c, self) ==
    {k \in SubIds : held.entities[c][k].exists /\ MapEntity(k) = self}

remove_indices(c, self) ==
    {k \in SubIds : held.entities[c][k].exists /\ MapKey(k) = self}

\* async_will_remove_from_hass of an entity whose registry entry is bound to
\* the config entry: the host removes it, on the request of a user or in the
\* task async_update_internal created.
async_will_remove_from_hass(c, i) ==
    LET e == held.entities[c][i] IN
    /\ e.hosted = "added"
    /\ held' = [held EXCEPT
          !.entities[c] = [k \in SubIds |->
              LET x == IF k = i
                       THEN [updater_stop(e) EXCEPT !.hosted = "removed",
                                                    !.removing = FALSE]
                       ELSE @[k] IN
              IF k \in remove_indices(c, MapEntity(i))
              THEN [x EXCEPT !.exists = FALSE] ELSE x]]
    /\ UNCHANGED <<apiVars, entityVars, pushVars, setupVars, decodeVars, loginVars>>

\* EnergosbytPlusMeter.async_update_internal once the fetch returned a list:
\* v names the fetched records, listed tells whether one has the meter's id.
MeterAfterUpdateDroppingRecord(e, listed, v) ==
    [e EXCEPT !.updated = [v |-> v, listed |-> listed],
              !.record = IF listed THEN v ELSE 0,
              !.removing = @ \/ ~listed]

MeterAfterUpdate(e, listed, v) ==
    IF listed
    THEN [e EXCEPT !.updated = [v |-> v, listed |-> TRUE], !.record = v]
    ELSE [e EXCEPT !.updated = [v |-> v, listed |-> FALSE], !.removing = TRUE]

\* The interval timer of an added meter entity fires and its update fetches
\* the meters ids of the account.
async_update_internal(i, ids) ==
    LET e == held.entities[MeterCls][i] IN
    /\ e.hosted = "added" /\ e.timers > 0
    /\ held.fetches < MaxFetches
    /\ held' = [held EXCEPT
          !.fetches = @ + 1,
          !.entities[MeterCls][i] = MeterAfterUpdate(e, i \in ids, held.fetches + 1)]
    /\ UNCHANGED <<apiVars, entityVars, pushVars, setupVars, decodeVars, loginVars>>

StoreIdle == held = NoHeld

\* ---------------------------------------------------------------- setup
\* async_setup_entry: the client is constructed without a login type,
\* authenticated, and asked for the residential objects; the accounts of the
\* objects are counted.  The call ends by returning True or False or by
\* raising; "cause" is the step that ended it.
NoSetup == [pc |-> "idle", result |-> "none", cause |-> "none", accounts_count |-> 0]

\* The entry's share of hass.data: "api", "entities", "config" and "listener"
\* tell whether DATA_API_OBJECTS, DATA_ENTITIES, DATA_FINAL_CONFIG and
\* DATA_UPDATE_LISTENERS hold the entry id, "delegators" whether
\* DATA_UPDATE_DELEGATORS does and the platforms registered in its dict,
\* "listening" counts the update listeners of the config entry that were
\* not cancelled.
NoEntryData ==
    [api |-> FALSE, entities |-> FALSE, config |-> FALSE,
     delegators |-> [present |-> FALSE, platforms |-> {}],
     listener |-> FALSE, listening |-> 0]

\* "forwarded": the platforms whose setup task async_setup_entry created and
\* that has not run; "registrations": the calls of
\* async_register_update_delegator so far; "refreshes": the refresh cycles
\* they started; "unload": the running or last async_unload_entry call, the
\* data it found and the platforms it unloads.
NoEntry ==
    [data |-> NoEntryData, forwarded |-> {}, registrations |-> <<>>, refreshes |-> 0,
     unload |-> [pc |-> "idle", before |-> NoEntryData, domains |-> {},
                 result |-> "none"]]

\* the placeholders, the forwarded platform setups and the update listener
\* at the end of a successful async_setup_entry
EntryAfterSetup(e, outcome) ==
    IF outcome # "True" THEN e
    ELSE [e EXCEPT
            !.data = [api |-> TRUE, entities |-> TRUE, config |-> TRUE,
                      delegators |-> [present |-> TRUE, platforms |-> {}],
                      listener |-> TRUE, listening |-> e.data.listening + 1],
            !.forwarded = {"sensor", "binary_sensor"}]

\* except EnergosbytPlusException as e: raise ConfigEntryNotReady(...)
\* Any other exception leaves async_setup_entry as it is.
SetupFailure(kind) ==
    IF IsEnergosbytPlusException(kind) THEN "ConfigEntryNotReady" ELSE kind

\* if not accounts_count: return False ... return True
SetupResult(accounts_count) == IF accounts_count = 0 THEN "False" ELSE "True"

SetupEnds(outcome, cause, n) ==
    [pc |-> "done", result |-> outcome, cause |-> cause, accounts_count |-> n]

\* api_object = EnergosbytPlusAPI(...); await api_object.async_authenticate()
\* up to the first login request.
SetupStart ==
    /\ setup.pc = "idle"
    /\ auth.pc = "idle"
    /\ setup' = [setup EXCEPT !.pc = "auth"]
    /\ auth' = AuthStarted(client, auth.n + 1)
    /\ UNCHANGED <<now, client, http, entry, entityVars, loginVars, storeVars, pushVars, decodeVars>>

\* A login request of the setup's authentication is answered; when that ends
\* async_authenticate, the setup goes on to the listing or ends.
SetupLoginReturn(resp) ==
    /\ setup.pc = "auth"
    /\ LoginEffects(resp)
    /\ setup' = IF auth'.pc # "done" THEN setup
                ELSE IF auth'.result = "ok" THEN [setup EXCEPT !.pc = "listing"]
                ELSE SetupEnds(SetupFailure(auth'.result), "auth", 0)
    /\ UNCHANGED <<now, entry, entityVars, loginVars, storeVars, pushVars, decodeVars>>

\* residential_objects = await api_object.async_get_residential_objects()
\* is answered, with objects that hold accounts_count accounts in all.
SetupListingReturn(resp, accounts_count) ==
    /\ setup.pc = "listing"
    /\ LET o == AuthenticatedOutcome(now, client, "GET", resp) IN
       /\ http' = [method |-> "GET", resp |-> resp, out |-> o,
                   expired |-> is_token_expired(now, client)]
       /\ setup' = IF o.kind # "return" THEN SetupEnds(SetupFailure(o.kind), "listing", 0)
                   ELSE SetupEnds(SetupResult(accounts_count),
                                  IF accounts_count = 0 THEN "no_accounts" ELSE "none",
                                  accounts_count)
       /\ entry' = EntryAfterSetup(entry, setup'.result)
    /\ UNCHANGED <<now, client, auth, entityVars, loginVars, storeVars, pushVars, decodeVars>>

SetupIdle == setup = NoSetup /\ entry = NoEntry

\* ---------------------------------------------------------------- entry
\* const.SUPPORTED_PLATFORMS
SUPPORTED_PLATFORMS == Platforms

\* if len(update_delegators) != len(SUPPORTED_PLATFORMS): return
\* await async_refresh_api_data(hass, config_entry)
RegistrationStartsRefreshWhenAny(platforms) == Cardinality(platforms) # 0

RegistrationStartsRefresh(platforms) ==
    Cardinality(platforms) = Cardinality(SUPPORTED_PLATFORMS)

\* The setup of platform p the entry was forwarded to runs
\* async_register_update_delegator, up to the start of the refresh cycle;
\* hass.data[DATA_UPDATE_DELEGATORS][entry_id] raises KeyError when an unload
\* popped the entry's dict.
async_register_update_delegator(p) ==
    /\ p \in entry.forwarded
    /\ LET d == entry.data.delegators
           after == d.platforms \cup {p}
           starts == d.present /\ RegistrationStartsRefresh(after) IN
       entry' = [entry EXCEPT
          !.forwarded = @ \ {p},
          !.data.delegators.platforms = IF d.present THEN after ELSE @,
          !.registrations = Append(@,
              [platform |-> p, raised |-> ~d.present,
               after |-> IF d.present THEN after ELSE {}, started |-> starts]),
          !.refreshes = IF starts THEN @ + 1 ELSE @]
    /\ UNCHANGED <<setup, apiVars, entityVars, loginVars, storeVars, pushVars, decodeVars>>

\* async_unload_entry of the loaded entry up to the gather of the platform
\* unloads: the entry's delegators are popped and one unload is forwarded
\* for each of their platforms.
UnloadStart ==
    /\ setup.pc = "done" /\ setup.result = "True"
    /\ entry.unload.pc = "idle"
    /\ entry' = [entry EXCEPT
          !.data.delegators = [present |-> FALSE, platforms |-> {}],
          !.unload = [pc |-> "unloading", before |-> entry.data,
                      domains |-> entry.data.delegators.platforms,
                      result |-> "none"]]
    /\ UNCHANGED <<setup, apiVars, entityVars, loginVars, storeVars, pushVars, decodeVars>>

\* if unload_ok: the api object, the final configuration and the listener
\* are popped and the listener is cancelled
DataAfterUnload(d, unload_ok) ==
    IF unload_ok
    THEN [d EXCEPT !.api = FALSE, !.config = FALSE, !.listener = FALSE,
                   !.listening = @ - 1]
    ELSE d

\* The gather returns: the platforms of unloaded answered True, the other
\* platforms of the call answered False.
UnloadReturn(unloaded) ==
    /\ entry.unload.pc = "unloading"
    /\ unloaded \subseteq entry.unload.domains
    /\ LET unload_ok == unloaded = entry.unload.domains IN
       entry' = [entry EXCEPT
          !.data = DataAfterUnload(@, unload_ok),
          !.unload.pc = "done",
          !.unload.result = IF unload_ok THEN "True" ELSE "False"]
    /\ UNCHANGED <<setup, apiVars, entityVars, loginVars, storeVars, pushVars, decodeVars>>

\* ---------------------------------------------------------------- decoders
\* The de_json class methods that turn a JSON object of the portal into a
\* record.  A string is a sequence of one-character strings; a month name is
\* one element of it, written in Latin letters (its letters are neither a
\* space nor a dot, which is all partition() looks at).
_CAPITAL_MONTH_NAMES ==
    << "Yanvar", "Fevral", "Mart", "Aprel", "Mai", "Iyun",
       "Iyul", "Avgust", "Sentyabr", "Oktyabr", "Noyabr", "Dekabr" >>

Digits == <<"0", "1", "2", "3", "4", "5", "6", "7", "8", "9">>
Invalid == -1

\* tuple.index(x): the 0-based position of x, ValueError when x is absent
TupleIndex(t, x) ==
    IF \E i \in 1..Len(t) : t[i] = x
    THEN (CHOOSE i \in 1..Len(t) : t[i] = x /\ \A j \in 1..(i - 1) : t[j] # x) - 1
    ELSE Invalid

\* str.partition(sep): the text before the first sep and the text after it
Partition(str, sep) ==
    IF \E i \in 1..Len(str) : str[i] = sep
    THEN LET i == CHOOSE k \in 1..Len(str) :
                     str[k] = sep /\ \A j \in 1..(k - 1) : str[j] # sep
         IN  <<SubSeq(str, 1, i - 1), SubSeq(str, i + 1, Len(str))>>
    ELSE <<str, <<>>>>

\* int(str) of a decimal numeral, ValueError otherwise
RECURSIVE IntOfDigits(_)
IntOfDigits(str) ==
    IF str = <<>> THEN 0
    ELSE IntOfDigits(SubSeq(str, 1, Len(str) - 1)) * 10 + TupleIndex(Digits, str[Len(str)])

\* str.strip(): the text without the spaces at its ends
RECURSIVE Strip(_)
Strip(str) ==
    IF str = <<>> THEN str
    ELSE IF Head(str) = " " THEN Strip(Tail(str))
    ELSE IF str[Len(str)] = " " THEN Strip(SubSeq(str, 1, Len(str) - 1))
    ELSE str

\* the texts int() accepts: spaces around an optional sign and decimal digits
IsInt(str) ==
    LET s == Strip(str)
        d == IF s # <<>> /\ s[1] \in {"-", "+"} THEN Tail(s) ELSE s
    IN  d # <<>> /\ \A i \in 1..Len(d) : TupleIndex(Digits, d[i]) # Invalid

int(str) ==
    LET s == Strip(str) IN
    IF ~IsInt(str) THEN Invalid
    ELSE IF s[1] = "-" THEN 0 - IntOfDigits(Tail(s))
    ELSE IF s[1] = "+" THEN IntOfDigits(Tail(s))
    ELSE IntOfDigits(s)

\* dash_or_converter(input_str, converter): None is [null |-> TRUE]
Null == [null |-> TRUE, value |-> <<>>]
dash_or_converter_unstripped(input_str, converted) ==
    IF input_str = <<"-">> THEN Null
    ELSE [null |-> FALSE, value |-> converted]

dash_or_converter(input_str, converted) ==
    IF Strip(input_str) = <<"-">> THEN Null
    ELSE [null |-> FALSE, value |-> converted]

\* float(x) of a JSON number keeps its value; amounts are whole roubles here
float(x) == x

\* datetime.date(year, month, day), ValueError for a month outside 1..12
NoDate == [kind |-> "none", year |-> 0, month |-> 0, day |-> 0]
ValueError == [kind |-> "ValueError", year |-> 0, month |-> 0, day |-> 0]
date(year, month, day) ==
    IF year \in 1..9999 /\ month \in 1..12 /\ day \in 1..28
    THEN [kind |-> "date", year |-> year, month |-> month, day |-> day]
    ELSE ValueError

\* period_month_name, _, period_year = accepted["period"].partition(" ")
\* date(year=int(period_year), month=_CAPITAL_MONTH_NAMES.index(...), day=1)
MonthOfName(name) == TupleIndex(_CAPITAL_MONTH_NAMES, name)

AcceptedPeriod(str) ==
    LET parts == Partition(str, " ") IN
    IF parts[1] = <<>> \/ Len(parts[1]) > 1 THEN ValueError
    ELSE date(int(parts[2]), MonthOfName(parts[1][1]), 1)

\* month, _, year = data["period"].partition(".")
\* date(year=int(year), month=int(month), day=1)
NumericPeriod(str) ==
    LET parts == Partition(str, ".") IN date(int(parts[2]), int(parts[1]), 1)

\* The fields of a decoded record that the model follows; a class leaves the
\* fields it does not have at their blank value.
NoObject ==
    [kind |-> "none", accepted_period |-> NoDate, period |-> NoDate,
     balance |-> 0, commission_balance |-> 0, balance_actual |-> 0,
     commission_actual_balance |-> 0, initial |-> 0, total |-> 0,
     zones |-> <<>>, manufacturer |-> Null, digits |-> Null,
     period_from |-> <<>>, period_to |-> <<>>]

Object(fields) == IF \E f \in {"accepted_period", "period"} : fields[f] = ValueError
                  THEN [NoObject EXCEPT !.kind = "ValueError"]
                  ELSE [fields EXCEPT !.kind = "object"]

\* "t%d" % i and "tariff%d" % (i,)
ZoneId(i) == "t" \o ToString(i)
TariffKey(i) == "tariff" \o ToString(i)

\* None if x is None else float(x[zone_index])
NoneOrFloat(x, zone_index) == IF x.null THEN NoValue ELSE float(x.at[zone_index])

\* range(1, int(data["zoning"]) + 1)
ZoneRange(data) == 1..int(data.zoning)

MeterDeJson(data) ==
    Object([NoObject EXCEPT
        !.accepted_period = IF data.accepted.null THEN NoDate
                            ELSE AcceptedPeriod(data.period),
        !.zones = [i \in ZoneRange(data) |->
                     [id |-> ZoneId(i),
                      accepted |-> NoneOrFloat(data.accepted, ZoneId(i)),
                      last_submitted |-> NoneOrFloat(data.sent, ZoneId(i)),
                      submitted |-> NoneOrFloat(data.current, ZoneId(i))]]])

MeterCharacteristicsDeJson(data) ==
    IF Strip(data.digits) # <<"-">> /\ ~IsInt(data.digits)
    THEN [NoObject EXCEPT !.kind = "ValueError"]
    ELSE Object([NoObject EXCEPT
        !.manufacturer = dash_or_converter(data.manufacturer, data.manufacturer),
        !.digits = dash_or_converter(data.digits, int(data.digits)),
        !.zones = [i \in ZoneRange(data) |->
                     [id |-> ZoneId(i), unit |-> data.tariffs[TariffKey(i)]]]])

ServiceChargeDeJson(data) ==
    Object([NoObject EXCEPT
        !.initial = -float(data.start_balance),
        !.total = float(data.end_balance),
        !.zones = [i \in ZoneRange(data) |->
                     [id |-> ZoneId(i),
                      cost |-> float(data.cost.at[ZoneId(i)]),
                      previous |-> float(data.previous_data.at[ZoneId(i)]),
                      current |-> float(data.current_data.at[ZoneId(i)])]]])

AccountChargesDeJson(data) ==
    Object([NoObject EXCEPT !.period = NumericPeriod(data.period),
                            !.balance = -float(data.balance)])

AccountDeJson(data) ==
    Object([NoObject EXCEPT !.balance = -float(data.balance)])

BalanceServiceDeJson(data) ==
    Object([NoObject EXCEPT
              !.total = float(data.end_balance),
              !.balance_actual = -float(data.actual_balance),
              !.commission_actual_balance = float(data.commission_actual_balance)])

AccountBalanceDeJson(data) ==
    Object([NoObject EXCEPT !.period = NumericPeriod(data.period),
                            !.balance = -float(data.balance),
                            !.commission_balance = float(data.commission_balance)])

DeJson(data) ==
    CASE data.cls = "Meter" -> MeterDeJson(data)
      [] data.cls = "MeterCharacteristics" -> MeterCharacteristicsDeJson(data)
      [] data.cls = "ServiceCharge" -> ServiceChargeDeJson(data)
      [] data.cls = "AccountCharges" -> AccountChargesDeJson(data)
      [] data.cls = "Account" -> AccountDeJson(data)
      [] data.cls = "BalanceService" -> BalanceServiceDeJson(data)
      [] data.cls = "AccountBalance" -> AccountBalanceDeJson(data)

\* cls.de_json(data) runs.
Decode ==
    /\ decoded.kind = "none"
    /\ raw.cls # "async_get_payments"
    /\ decoded' = DeJson(raw)
    /\ UNCHANGED <<raw, apiVars, pushVars, setupVars, entityVars, loginVars, storeVars>>

\* str(n) of a natural number, and str.zfill(width)
RECURSIVE str(_)
str(n) == IF n < 10 THEN <<Digits[n + 1]>> ELSE str(n \div 10) \o <<Digits[(n % 10) + 1]>>

RECURSIVE zfill(_, _)
zfill(text, width) == IF Len(text) >= width THEN text ELSE zfill(<<"0">> \o text, width)

\* async_get_payments without period_start: the start of the default window
PeriodStartUnwrapped(period_end) == date(period_end.year, period_end.month - 3, 1)

PeriodStart(period_end) ==
    IF period_end.month < 4
    THEN date(period_end.year - 1, 12 + period_end.month - 3, 1)
    ELSE date(period_end.year, period_end.month - 3, 1)

\* async_get_payments(account_id, period_end=...) builds its request.
GetPayments ==
    /\ decoded.kind = "none"
    /\ raw.cls = "async_get_payments"
    /\ LET period_end == date(raw.year, raw.month, raw.day)
           period_start == PeriodStart(period_end)
       IN  decoded' =
             IF period_start = ValueError THEN [NoObject EXCEPT !.kind = "ValueError"]
             ELSE [NoObject EXCEPT
                     !.kind = "request", !.period = period_start,
                     !.period_from = zfill(str(period_start.month), 2) \o <<".">>
                                        \o zfill(str(period_start.year), 4),
                     !.period_to = zfill(str(period_end.month), 2) \o <<".">>
                                        \o zfill(str(period_end.year), 4)]
    /\ UNCHANGED <<raw, apiVars, pushVars, setupVars, entityVars, loginVars, storeVars>>

\* The JSON objects of the portal: "cls" is the class that decodes the object,
\* "year" and "month" the month the portal's period text stands for.
\* A JSON object keyed by zone id holds a value for each of t1..tMaxZones, in
\* ascending or in descending order; the units of a meter's characteristics
\* are keyed tariff1..tariffMaxZones in the object itself.
KeyedUp == [null |-> FALSE, at |-> [k \in {ZoneId(i) : i \in 1..MaxZones} |->
                CHOOSE i \in 1..MaxZones : k = ZoneId(i)]]
KeyedDown == [null |-> FALSE, at |-> [k \in {ZoneId(i) : i \in 1..MaxZones} |->
                MaxZones + 1 - KeyedUp.at[k]]]
KeyedNone == [KeyedUp EXCEPT !.null = TRUE]
TariffsUp == [k \in {TariffKey(i) : i \in 1..MaxZones} |->
                CHOOSE i \in 1..MaxZones : k = TariffKey(i)]

NoData ==
    [cls |-> "Account", period |-> <<>>, year |-> 0, month |-> 0, day |-> 0,
     balance |-> 0, commission_balance |-> 0, start_balance |-> 0, end_balance |-> 0,
     actual_balance |-> 0, commission_actual_balance |-> 0,
     zoning |-> <<"0">>, accepted |-> KeyedUp, sent |-> KeyedUp, current |-> KeyedUp,
     cost |-> KeyedUp, previous_data |-> KeyedUp, current_data |-> KeyedUp,
     tariffs |-> TariffsUp, manufacturer |-> <<"-">>, digits |-> <<"-">>]

DecodeIdle ==
    /\ raw = NoData
    /\ decoded = DeJson(NoData)

\* The coroutines the host can start: an update of a meter, charges or
\* service-charge entity of either account, or a push_indications call with a
\* reading that passes or fails the meter's checks.  The callers are
\* interchangeable, so Init takes them in non-decreasing input order.
CallerInputs ==
    <<  [cls |-> MeterCls, op |-> "update", acct |-> "acc1", valid |-> TRUE],
        [cls |-> ChargesCls, op |-> "update", acct |-> "acc1", valid |-> TRUE],
        [cls |-> ServiceChargesCls, op |-> "update", acct |-> "acc1", valid |-> TRUE],
        [cls |-> MeterCls, op |-> "update", acct |-> "acc2", valid |-> TRUE],
        [cls |-> ChargesCls, op |-> "update", acct |-> "acc2", valid |-> TRUE],
        [cls |-> MeterCls, op |-> "push", acct |-> "acc1", valid |-> TRUE],
        [cls |-> MeterCls, op |-> "push", acct |-> "acc1", valid |-> FALSE] >>

InitialUpstream == [k \in {"meters", "charges"} |-> [a \in Accounts |-> {1}]]

vars == <<setupVars, decodeVars, loginVars, storeVars,
          upstream, futures, slots, cls, op, acct, valid, pc, opCalls, authCalls, fut,
          role, overlap, calls, result, update_delegators, final_config, entities,
          rpc, rcalls, rfail, tasks, added, created, delivered,
          now, client, auth, http, meter, push, events>>

CoalescerInit ==
    /\ upstream = InitialUpstream
    /\ futures = [f \in FutIds |-> Unborn]
    /\ slots = NoSlots

CallersIdle ==
    /\ pc = [c \in Callers |-> "idle"]
    /\ opCalls = [c \in Callers |-> 0]
    /\ authCalls = [c \in Callers |-> 0]
    /\ fut = [c \in Callers |-> NoFut]
    /\ role = [c \in Callers |-> "none"]
    /\ overlap = [c \in Callers |-> {}]
    /\ calls = [c \in Callers |-> <<>>]
    /\ result = [c \in Callers |-> "none"]

NoConfig == [present |-> FALSE, enabled |-> TRUE, flags |-> ConfigKeys]

RefreshIdle ==
    /\ entities = [c \in Classes |-> {}]
    /\ rpc = [r \in Cycles |-> "idle"]
    /\ rcalls = [r \in Cycles |-> 0]
    /\ rfail = [r \in Cycles |-> "none"]
    /\ tasks = [r \in Cycles |-> [t \in Pairs |-> NoTask]]
    /\ added = [r \in Cycles |-> [p \in Platforms |-> 0]]
    /\ created = [c \in Classes |-> [k \in Keys |-> 0]]
    /\ delivered = [c \in Classes |-> [k \in Keys |-> 0]]

Init ==
    /\ CoalescerInit
    /\ \E in \in [Callers -> 1..Len(CallerInputs)] :
          /\ \A c \in Callers : c + 1 \in Callers => in[c] <= in[c + 1]
          /\ cls = [c \in Callers |-> CallerInputs[in[c]].cls]
          /\ op = [c \in Callers |-> CallerInputs[in[c]].op]
          /\ acct = [c \in Callers |-> CallerInputs[in[c]].acct]
          /\ valid = [c \in Callers |-> CallerInputs[in[c]].valid]
    /\ CallersIdle
    /\ update_delegators = {}
    /\ final_config = [default |-> NoConfig, accounts |-> [a \in Accounts |-> NoConfig]]
    /\ RefreshIdle
    /\ ApiIdle
    /\ PushIdle
    /\ SetupIdle
    /\ LoginIdle
    /\ StoreIdle
    /\ DecodeIdle

Next ==
    \/ \E c \in Callers : Invoke(c)
    \/ \E c \in Callers, o \in GetOutcomes : FetchReturn(c, o)
    \/ \E c \in Callers : WaiterResume(c)
    \/ \E c \in Callers, o \in PostOutcomes : PostReturn(c, o)
    \/ \E c \in Callers, ok \in BOOLEAN : AuthReturn(c, ok)
    \/ \E c \in Callers : Cancel(c)

Spec == Init /\ [][Next]_vars

\* ---------------------------------------------------------------- SpecRefresh
\* The configurations a cycle is run under: which platforms registered a
\* delegator, the default account configuration and acc1's own entry (acc2
\* has none and falls back to the default).  An account configuration is
\* False or a mapping of class flags; flags lists the keys that are not False.
DisabledConfig == [present |-> TRUE, enabled |-> FALSE, flags |-> {}]

EnabledConfig(S) == [present |-> TRUE, enabled |-> TRUE, flags |-> S]

DefaultConfigChoices == {DisabledConfig, EnabledConfig({"accounts", "charges"})}

AccountConfigChoices ==
    {NoConfig, DisabledConfig, EnabledConfig(ConfigKeys),
     EnabledConfig({"accounts", "meters"}), EnabledConfig({"charges", "service_charges"})} \cup
    {EnabledConfig({k}) : k \in ConfigKeys}

\* async_register_update_delegator starts a cycle when every supported
\* platform has registered; a cycle started with no platform registered
\* returns after the listing.
DelegatorChoices == {{}, Platforms}

InitRefresh ==
    /\ CoalescerInit
    /\ cls = [c \in Callers |-> MeterCls]
    /\ op = [c \in Callers |-> "update"]
    /\ acct = [c \in Callers |-> "acc1"]
    /\ valid = [c \in Callers |-> TRUE]
    /\ CallersIdle
    /\ update_delegators \in DelegatorChoices
    /\ \E d \in DefaultConfigChoices, c1 \in AccountConfigChoices :
          final_config = [default |-> d,
                          accounts |-> [a \in Accounts |-> IF a = "acc1" THEN c1 ELSE NoConfig]]
    /\ RefreshIdle
    /\ ApiIdle
    /\ PushIdle
    /\ SetupIdle
    /\ LoginIdle
    /\ StoreIdle
    /\ DecodeIdle

NextRefresh ==
    \/ \E r \in Cycles : RefreshStart(r)
    \/ \E r \in Cycles, o \in GetOutcomes : ListingReturn(r, o)
    \/ \E r \in Cycles, ok \in BOOLEAN : RefreshAuthReturn(r, ok)
    \/ \E r \in Cycles, hm \in SUBSET Accounts : StartTasks(r, hm)
    \/ \E r \in Cycles, t \in Pairs : TaskEnter(r, t)
    \/ \E r \in Cycles, t \in Pairs, o \in {"ok", "UpstreamErr"} : TaskFetchReturn(r, t, o)
    \/ \E r \in Cycles, t \in Pairs : TaskWaiterResume(r, t)
    \/ \E r \in Cycles, t \in Pairs, ok \in BOOLEAN : TaskCharsReturn(r, t, ok)
    \/ \E r \in Cycles : GatherDone(r)
    \/ \E k \in {"meters", "charges"}, a \in Accounts : UpstreamGrows(k, a)

SpecRefresh == InitRefresh /\ [][NextRefresh]_vars

\* ---------------------------------------------------------------- SpecApi
\* One client, constructed with a numeric or a non-numeric username and with
\* or without a login type, whose owner calls authenticate() and the data
\* methods while time passes.
EntitiesIdle ==
    /\ CoalescerInit
    /\ cls = [c \in Callers |-> MeterCls]
    /\ op = [c \in Callers |-> "update"]
    /\ acct = [c \in Callers |-> "acc1"]
    /\ valid = [c \in Callers |-> TRUE]
    /\ CallersIdle
    /\ update_delegators = {}
    /\ final_config = [default |-> NoConfig, accounts |-> [a \in Accounts |-> NoConfig]]
    /\ RefreshIdle

InitApi ==
    /\ EntitiesIdle
    /\ PushIdle
    /\ SetupIdle
    /\ LoginIdle
    /\ StoreIdle
    /\ DecodeIdle
    /\ now = 0
    /\ \E numeric \in BOOLEAN, lt \in {"none", LOGIN_TYPE_ACCOUNT, LOGIN_TYPE_CONTACT} :
          client = NewClient(numeric, lt)
    /\ auth = NoAuth
    /\ http = NoRequest

NextApi ==
    \/ Authenticate
    \/ \E resp \in Responses : LoginReturn(resp)
    \/ \E method \in {"GET", "POST"}, resp \in Responses : Request(method, resp)
    \/ Tick

SpecApi == InitApi /\ [][NextApi]_vars

\* ---------------------------------------------------------------- SpecPush
\* One meter, with one or two zones, and one submission of readings: by the
\* entity's push_indications service or by a direct call of
\* Meter.async_push_indications.
ZoneChoices ==
    {[submitted |-> a, last_submitted |-> b, accepted |-> c] :
        a \in ReadingValues \cup {NoValue}, b \in ReadingValues \cup {NoValue},
        c \in ReadingValues \cup {NoValue}}

SecondZoneChoices == {NoZone, [NoZone EXCEPT !.accepted = MaxReading]}

InitPush ==
    /\ EntitiesIdle
    /\ ApiIdle
    /\ SetupIdle
    /\ LoginIdle
    /\ StoreIdle
    /\ DecodeIdle
    /\ \E zoning \in {1, 2}, t1 \in ZoneChoices, t2 \in SecondZoneChoices, active \in BOOLEAN :
          /\ zoning = 1 => t2 = NoZone
          /\ meter = NewMeter(zoning, t1, t2, active)
    /\ push = NoPush
    /\ events = <<>>

NextPush ==
    \/ \E call \in Calls : ServiceCall(call)
    \/ \E call \in Calls : MeterPushCall(call)
    \/ \E o \in PostOutcomes : SendReturn(o)
    \/ \E ok \in BOOLEAN : PushAuthReturn(ok)

SpecPush == InitPush /\ [][NextPush]_vars

\* ---------------------------------------------------------------- SpecSetup
\* One async_setup_entry call for a configuration entry whose user name is
\* or is not numeric; the portal answers each request in any way, and a
\* listing that succeeds holds up to MaxAccounts accounts.
InitSetup ==
    /\ EntitiesIdle
    /\ PushIdle
    /\ DecodeIdle
    /\ SetupIdle
    /\ LoginIdle
    /\ StoreIdle
    /\ now = 0
    /\ \E numeric \in BOOLEAN : client = NewClient(numeric, "none")
    /\ auth = NoAuth
    /\ http = NoRequest

NextSetup ==
    \/ SetupStart
    \/ \E resp \in Responses : SetupLoginReturn(resp)
    \/ \E resp \in Responses, n \in 0..MaxAccounts : SetupListingReturn(resp, n)

SpecSetup == InitSetup /\ [][NextSetup]_vars

\* ---------------------------------------------------------------- SpecEntry
\* The life of the config entry: its setup, the platform setups the setup
\* forwarded, and its unload.
NextEntry ==
    \/ SetupStart
    \/ \E resp \in Responses : SetupLoginReturn(resp)
    \/ \E resp \in Responses, n \in 0..MaxAccounts : SetupListingReturn(resp, n)
    \/ \E p \in Platforms : async_register_update_delegator(p)
    \/ UnloadStart
    \/ \E unloaded \in SUBSET Platforms : UnloadReturn(unloaded)

SpecEntry == InitSetup /\ [][NextEntry]_vars

\* ---------------------------------------------------------------- SpecLogin
\* NLogins concurrent calls of async_authenticate on one client, the portal
\* answering each login request in any order, with one answer for each
\* outcome of the POST helper and every expires_in.
LoginAnswers ==
    {r \in Responses :
        /\ r.body \in {"none", "json"} /\ r.error <= 1
        /\ (r.status # ExpectedStatus \/ r.error # 0) => (r.content = 1 /\ r.status + r.error <= 500)}

InitLogin ==
    /\ EntitiesIdle
    /\ PushIdle
    /\ SetupIdle
    /\ DecodeIdle
    /\ StoreIdle
    /\ LoginIdle
    /\ now = 0
    /\ \E numeric \in BOOLEAN, lt \in {"none", LOGIN_TYPE_CONTACT} :
          client = NewClient(numeric, lt)
    /\ auth = NoAuth
    /\ http = NoRequest

NextLogin ==
    \/ \E i \in LoginCalls : LoginsStart(i)
    \/ \E i \in LoginCalls, resp \in LoginAnswers : LoginsReturn(i, resp)
    \/ Tick

SpecLogin == InitLogin /\ [][NextLogin]_vars

\* ---------------------------------------------------------------- SpecSeq
\* NRequests requests of either method on one client, started and answered
\* in any order.
NextSeq ==
    \/ \E i \in 1..NRequests, method \in {"GET", "POST"} : RequestStart(i, method)
    \/ \E i \in 1..NRequests, resp \in LoginAnswers : RequestReturn(i, resp)

SpecSeq == InitLogin /\ [][NextSeq]_vars

\* ---------------------------------------------------------------- SpecStore
\* The refreshes of the meter and service-charge entities of one account and
\* the state writes they schedule.
InitStore ==
    /\ EntitiesIdle
    /\ ApiIdle
    /\ PushIdle
    /\ SetupIdle
    /\ DecodeIdle
    /\ LoginIdle
    /\ held = NoHeld

NextStore ==
    \/ \E c \in StoreClasses, ids \in SUBSET SubIds, enabled \in BOOLEAN :
          StoreRefresh(c, ids, enabled)
    \/ \E c \in StoreClasses, i \in SubIds : StoreWriteState(c, i)

SpecStore == InitStore /\ [][NextStore]_vars

\* ---------------------------------------------------------------- SpecLife
\* The same entities with their life in the host: added after a refresh
\* delivered them, updated on their timers, removed.
NextLife ==
    \/ \E c \in StoreClasses, ids \in SUBSET SubIds, enabled \in BOOLEAN :
          StoreRefresh(c, ids, enabled)
    \/ \E c \in StoreClasses, i \in SubIds : StoreWriteState(c, i)
    \/ \E c \in StoreClasses, i \in SubIds : async_added_to_hass(c, i)
    \/ \E c \in StoreClasses, i \in SubIds : async_will_remove_from_hass(c, i)
    \/ \E i \in SubIds, ids \in SUBSET SubIds : async_update_internal(i, ids)

SpecLife == InitStore /\ [][NextLife]_vars

\* ---------------------------------------------------------------- SpecDecode
\* One JSON object of each decoded class, with amounts of either sign and a
\* period text for every month of the years in Years.
Years == {2024, 2025}
YearText == [y \in Years |-> <<"2", "0", "2", Digits[(y % 10) + 1]>>]
MonthText == [m \in 1..12 |-> <<Digits[(m \div 10) + 1], Digits[(m % 10) + 1]>>]
Amounts == (0 - MaxAmount)..MaxAmount

NoPeriod(k) == [NoData EXCEPT !.cls = k]

NamedPeriod(k, y, m) ==
    [NoData EXCEPT !.cls = k, !.year = y, !.month = m,
                   !.period = <<_CAPITAL_MONTH_NAMES[m], " ">> \o YearText[y]]

DottedPeriod(k, y, m) ==
    [NoData EXCEPT !.cls = k, !.year = y, !.month = m,
                   !.period = MonthText[m] \o <<".">> \o YearText[y]]

Texts == UNION {[1..n -> {" ", "-", "7"}] : n \in 0..MaxLen}

ZonedInputs ==
    {[NamedPeriod("Meter", 2024, m) EXCEPT !.zoning = <<Digits[n + 1]>>,
                                           !.accepted = a, !.sent = b, !.current = c] :
        m \in {1, 3}, n \in 0..MaxZones, a \in {KeyedUp, KeyedDown, KeyedNone},
        b \in {KeyedUp, KeyedNone}, c \in {KeyedDown, KeyedNone}} \cup
    {[NoPeriod("MeterCharacteristics") EXCEPT !.zoning = <<Digits[n + 1]>>] :
        n \in 0..MaxZones} \cup
    {[NoPeriod("ServiceCharge") EXCEPT !.zoning = <<Digits[n + 1]>>, !.cost = a,
                                       !.previous_data = b, !.current_data = c] :
        n \in 0..MaxZones, a \in {KeyedUp, KeyedDown}, b \in {KeyedUp, KeyedDown},
        c \in {KeyedUp, KeyedDown}}

DashInputs ==
    {[NoPeriod("MeterCharacteristics") EXCEPT !.manufacturer = t] : t \in Texts} \cup
    {[NoPeriod("MeterCharacteristics") EXCEPT !.digits = t] : t \in Texts}

PaymentsInputs ==
    {[NoPeriod("async_get_payments") EXCEPT !.year = y, !.month = m, !.day = d] :
        y \in Years, m \in 1..12, d \in {1, 28}}

DecodeInputs ==
    ZonedInputs \cup DashInputs \cup PaymentsInputs \cup
    {NamedPeriod("Meter", y, m) : y \in Years, m \in 1..12} \cup
    {[NoPeriod("ServiceCharge") EXCEPT !.start_balance = a, !.end_balance = b] :
        a \in Amounts, b \in Amounts} \cup
    {[DottedPeriod("AccountCharges", y, m) EXCEPT !.balance = a] :
        y \in Years, m \in 1..12, a \in Amounts} \cup
    {[NoPeriod("Account") EXCEPT !.balance = a] : a \in Amounts} \cup
    {[NoPeriod("BalanceService") EXCEPT !.end_balance = a, !.actual_balance = b,
                                        !.commission_actual_balance = c] :
        a \in Amounts, b \in Amounts, c \in Amounts} \cup
    {[DottedPeriod("AccountBalance", y, m) EXCEPT !.balance = a, !.commission_balance = b] :
        y \in Years, m \in {1, 12}, a \in Amounts, b \in Amounts}

InitDecode ==
    /\ EntitiesIdle
    /\ ApiIdle
    /\ PushIdle
    /\ SetupIdle
    /\ LoginIdle
    /\ StoreIdle
    /\ raw \in DecodeInputs
    /\ decoded = NoObject

NextDecode == Decode \/ GetPayments

SpecDecode == InitDecode /\ [][NextDecode]_vars

\* ---------------------------------------------------------------- claims
CoalescedCalls(c) == {i \in 1..Len(calls[c]) : calls[c][i].fut # NoFut}

C2_OneInFlightPerKey ==
    /\ \A k \in {"meters", "charges"}, a \in Accounts :
          Cardinality(RunningFetches(k, a)) <= 1
    /\ \A c \in Callers : pc[c] \in {"waiting", "fetching"} =>
          /\ futures[fut[c]].kind = DataKind(cls[c])
          /\ futures[fut[c]].acct = acct[c]

C2_Witness ==
    \E c1, c2 \in Callers :
        /\ pc[c1] = "fetching" /\ pc[c2] = "waiting"
        /\ cls[c1] = ChargesCls /\ cls[c2] = ServiceChargesCls
        /\ fut[c2] = fut[c1]
        /\ futures[fut[c1]].state = "pending"

\* C3: a slot exists only while its leader's fetch is in flight: when the
\* fetch ends -- success, failure or cancellation -- the key is deleted in the
\* same step, no done future (no result) stays in the dict, and a caller that
\* enters when no fetch is in flight starts a fresh one.
C3_SlotClearedWithLeader ==
    /\ \A d \in Dicts, a \in Accounts : slots[d][a] # NoFut =>
          /\ \E c \in Callers : pc[c] = "fetching" /\ fut[c] = slots[d][a]
          /\ futures[slots[d][a]].state \notin {"result", "exception"}
          /\ futures[slots[d][a]].fetch = "running"
    /\ \A c \in Callers :
          /\ \A i \in CoalescedCalls(c) : calls[c][i].overlap = {} => calls[c][i].role = "leader"
          /\ (pc[c] \in {"fetching", "waiting"} /\ overlap[c] = {}) => role[c] = "leader"

C3_Witness ==
    \E c1, c2 \in Callers :
        /\ c1 # c2
        /\ Len(calls[c1]) >= 1
        /\ calls[c1][1].role = "leader" /\ calls[c1][1].out \in {"Cancelled", "UpstreamErr"}
        /\ pc[c2] = "fetching" /\ opCalls[c2] = 1
        /\ cls[c2] = cls[c1] /\ acct[c2] = acct[c1]
        /\ slots[CollectiveDict(cls[c2])][acct[c2]] = fut[c2]

\* C4: when the first invocation of the wrapped operation fails with an
\* authentication-class error, authenticate() is called exactly once; if the
\* second invocation succeeds the wrapped call succeeds; if it fails with an
\* authentication-class error again the wrapped call fails with it after
\* exactly two invocations.
C4_RetryOnceAfterAuthError ==
    \A c \in Callers :
        (Len(calls[c]) >= 1 /\ calls[c][1].out = "AuthErr") =>
            /\ authCalls[c] = 1
            /\ Len(calls[c]) >= 2 =>
                  /\ pc[c] = "done" /\ opCalls[c] = 2 /\ Len(calls[c]) = 2
                  /\ calls[c][2].out = "ok" => result[c] = "ok"
                  /\ calls[c][2].out = "AuthErr" => result[c] = "AuthErr"

C4_Witness ==
    \E c1, c2 \in Callers :
        /\ pc[c1] = "done" /\ Len(calls[c1]) = 2
        /\ calls[c1][1].out = "AuthErr" /\ calls[c1][2].out = "ok"
        /\ result[c1] = "ok" /\ authCalls[c1] = 1
        /\ pc[c2] = "done" /\ Len(calls[c2]) = 2
        /\ calls[c2][1].out = "AuthErr" /\ calls[c2][2].out = "AuthErr"
        /\ result[c2] = "AuthErr"

\* C5: with_auto_auth re-authenticates and retries only after an
\* authentication-class failure; an upstream envelope error, a transport
\* error or a rejected reading propagates at once: no authenticate() call and
\* no second invocation.
C5_OnlyAuthErrorsRetried ==
    \A c \in Callers :
        (Len(calls[c]) >= 1
           /\ calls[c][1].out \in {"ValidationErr", "UpstreamErr", "TransportErr"}) =>
            /\ authCalls[c] = 0
            /\ opCalls[c] = 1
            /\ pc[c] = "done" /\ result[c] = calls[c][1].out

\* C6: the wrapped operation is invoked at most twice and authenticate() at
\* most once; a failure of the second invocation is the caller's failure,
\* unmodified; when authenticate() fails the operation is not invoked again
\* and the caller fails.
C6_RetryDepthOne ==
    \A c \in Callers :
        /\ opCalls[c] <= 2 /\ authCalls[c] <= 1 /\ Len(calls[c]) <= 2
        /\ Len(calls[c]) = 2 =>
              /\ pc[c] = "done"
              /\ result[c] = calls[c][2].out
        /\ result[c] = "AuthFailed" =>
              /\ pc[c] = "done" /\ opCalls[c] = 1 /\ authCalls[c] = 1

C6_Witness ==
    \E c1, c2 \in Callers :
        /\ pc[c1] = "done" /\ Len(calls[c1]) = 2
        /\ calls[c1][2].out \in {"UpstreamErr", "RawErr"} /\ result[c1] = calls[c1][2].out
        /\ result[c2] = "AuthFailed"

\* C7: in a cycle whose listing succeeded, a refresh task that raises counts
\* as "no new entities": the cycle does not fail because of an entity class's
\* refresh, every scheduled task runs to completion before the cycle ends,
\* and what the other tasks created is delivered to the add-entities
\* callback.  This covers every registered class, the last-payment class
\* of the binary-sensor platform included.
C7_TaskFailureIsolated ==
    \A r \in Cycles :
        /\ rfail[r] # "schedule"
        /\ rpc[r] = "done" =>
              \A t \in Pairs :
                  /\ tasks[r][t].st \in {"none", "done"}
                  /\ \A k \in tasks[r][t].new : delivered[t[2]][k] >= 1

\* C8: within a cycle no add-entities callback is invoked before every
\* scheduled task of the cycle, of every platform, has completed; each
\* platform's callback is invoked at most once per cycle: once when a task of
\* the platform returned new entities, not at all otherwise.
C8_CallbackAfterAllTasks ==
    \A r \in Cycles, p \in Platforms :
        /\ added[r][p] <= 1
        /\ added[r][p] >= 1 =>
              \A t \in Pairs : tasks[r][t].st \in {"none", "done"}
        /\ rpc[r] # "done" => added[r][p] = 0
        /\ rpc[r] = "done" =>
              (added[r][p] = 1 <=>
                  \E t \in Pairs : /\ t[2] \in PlatformClasses(p)
                                    /\ tasks[r][t].res = "new")

C8_Witness ==
    \E r1, r2 \in Cycles, a \in Accounts :
        /\ rpc[r1] = "done" /\ rpc[r2] = "done"
        /\ tasks[r1][<<a, MeterCls>>].res = "new"
        /\ tasks[r1][<<a, AccountCls>>].res = "new"
        /\ added[r1]["sensor"] = 1 /\ added[r1]["binary_sensor"] = 0
        /\ tasks[r2][<<a, MeterCls>>].res = "raised"
        /\ tasks[r2][<<a, AccountCls>>].res = "None"
        /\ added[r2]["sensor"] = 0

\* C9: a cycle that got its listing schedules a refresh task for a pair
\* (account, registered entity class) if and only if the account's
\* configuration (its own entry, or the default when it has none) is not
\* False and that configuration's flag for the class's config key is not
\* False; every such pair gets exactly one task.
C9_TaskScheduledIffEnabled ==
    \A r \in Cycles :
        (rpc[r] \in {"gathering", "done"} \/ rfail[r] = "schedule") =>
            \A t \in Pairs :
                LET own == final_config.accounts[t[1]]
                    cfg == IF own.present THEN own ELSE final_config.default IN
                tasks[r][t].st # "none" <=>
                    /\ \E p \in update_delegators : t[2] \in PlatformClasses(p)
                    /\ cfg.enabled
                    /\ ConfigKey(t[2]) \in cfg.flags

\* C10: for each entity class and each key of its key space, over all
\* refresh cycles, overlapping ones included, an entity is created at most
\* once and returned as new by at most one task; every other refresh of the
\* key finds the entity that exists, and no entity is delivered to the
\* add-entities callback twice.
C10_EntityCreatedOnce ==
    \A c \in Classes, k \in Keys :
        /\ created[c][k] <= 1
        /\ delivered[c][k] <= created[c][k]
        /\ k \in entities[c] <=> created[c][k] = 1
        /\ Cardinality({x \in Cycles \X Accounts : k \in tasks[x[1]][<<x[2], c>>].new}) <= 1

C10_Witness ==
    \E r1, r2 \in Cycles, a \in Accounts :
        /\ r1 # r2
        /\ rpc[r1] = "gathering" /\ rpc[r2] = "gathering"
        /\ tasks[r1][<<a, MeterCls>>].new = {<<a, 1>>}
        /\ tasks[r2][<<a, MeterCls>>].new = {<<a, 2>>}
        /\ tasks[r1][<<a, AccountCls>>].res = "new"
        /\ tasks[r2][<<a, AccountCls>>].res = "None"
        /\ created[MeterCls][<<a, 1>>] = 1 /\ created[AccountCls][<<a>>] = 1

C12_AuthFailureWrapped ==
    (auth.pc = "done" /\ auth.result # "ok") => auth.result = "AuthError"

\* C13: a client that never authenticated reports its token expired; after
\* a successful authenticate() that returned expires_in = E > 0 the token is
\* reported expired exactly when more than E time units have passed since
\* that login, and a further successful authenticate() makes it not expired
\* again.
C13_TokenLifecycle ==
    /\ client.logins = 0 => is_token_expired(now, client)
    /\ client.logins > 0 =>
          /\ client.expires_in > 0
          /\ is_token_expired(now, client) <=> now - client.login_at > client.expires_in
    /\ (auth.pc = "done" /\ auth.result = "ok" /\ now = client.login_at) =>
          ~is_token_expired(now, client)

C13_Witness ==
    /\ client.logins = 2
    /\ client.before = "expired"
    /\ now = client.login_at
    /\ ~is_token_expired(now, client)

\* C14: every request of the transport, GET or POST, whose answer has a
\* status other than 200 or a body that is not valid JSON fails with a
\* transport error and returns no content.
C14_BadStatusOrBodyIsTransportError ==
    (/\ http.method # "none"
     /\ http.resp.body # "none"
     /\ (http.resp.status # ExpectedStatus \/ http.resp.body # "json")) =>
        /\ http.out.kind = "TransportErr"
        /\ http.out.content = 0

\* C15: for every envelope {error, content} the transport parsed: when error
\* is 0 the request returns exactly content; for any other error the request
\* fails with an error carrying that code and returns no content.
C15_EnvelopeErrorDecides ==
    (/\ http.method # "none"
     /\ http.resp.body = "json"
     /\ (http.method = "GET" \/ http.resp.status = ExpectedStatus)) =>
        /\ http.resp.error = 0 => http.out = Returned(http.resp.content)
        /\ http.resp.error # 0 =>
              /\ http.out.kind = "UpstreamErr"
              /\ http.out.code = http.resp.error
              /\ http.out.content = 0

C15_Witness ==
    /\ http.method = "GET"
    /\ http.resp.body = "json"
    /\ http.resp.error = MaxErrorCode
    /\ http.out = Raised("UpstreamErr", MaxErrorCode)

C17_OneResultEvent ==
    /\ Len(events) <= 1
    /\ push.via # "service" => events = <<>>
    /\ push.via = "service" =>
          /\ Len(events) = 1 <=> push.pc = "done"
          /\ Len(events) = 1 =>
                /\ events[1].success <=> push.result = "ok"
                /\ events[1].call_params = push.call.indications
                /\ push.real # NoReadings => events[1].indications = push.real
                /\ ~events[1].success <=> push.raised

C17_Witness ==
    /\ push.via = "service" /\ push.pc = "done"
    /\ push.opCalls = 2 /\ push.authCalls = 1 /\ push.sent = 2
    /\ push.result = "UpstreamErr" /\ push.raised
    /\ Len(events) = 1 /\ ~events[1].success
    /\ events[1].indications = push.real

\* C18: when the setup's authentication fails, its listing of residential
\* objects fails, or the listing holds no account, async_setup_entry ends
\* with ConfigEntryNotReady; it never returns True in these cases.
C18_SetupNotReady ==
    (setup.pc = "done" /\ setup.cause \in {"auth", "listing", "no_accounts"})
        => setup.result = "ConfigEntryNotReady"

\* C19: in every decoded record each balance field is the negated raw value
\* (Account.balance, AccountCharges.balance, AccountBalance.balance and
\* commission_balance, BalanceService.balance_actual and
\* commission_actual_balance, ServiceCharge.initial) and each total is the raw
\* end_balance unchanged (ServiceCharge.total, BalanceService.total).
C19_BalancesNegated ==
    decoded.kind = "object" =>
        /\ raw.cls \in {"Account", "AccountCharges", "AccountBalance"}
              => decoded.balance = 0 - raw.balance
        /\ raw.cls = "AccountBalance"
              => decoded.commission_balance = 0 - raw.commission_balance
        /\ raw.cls = "BalanceService"
              => /\ decoded.balance_actual = 0 - raw.actual_balance
                 /\ decoded.commission_actual_balance = 0 - raw.commission_actual_balance
                 /\ decoded.total = raw.end_balance
        /\ raw.cls = "ServiceCharge"
              => /\ decoded.initial = 0 - raw.start_balance
                 /\ decoded.total = raw.end_balance

\* C20: a meter's accepted period "<MonthName> <Year>" decodes to the first
\* day of the month whose 1-based position in _CAPITAL_MONTH_NAMES is that of
\* MonthName, and a period "MM.YYYY" decodes to the first day of month MM of
\* year YYYY.
C20_PeriodIsFirstOfMonth ==
    decoded.kind # "none" =>
        /\ (raw.cls = "Meter" /\ ~raw.accepted.null)
              => \E m \in 1..Len(_CAPITAL_MONTH_NAMES) :
                    /\ _CAPITAL_MONTH_NAMES[m] = raw.period[1]
                    /\ decoded.kind = "object"
                    /\ decoded.accepted_period =
                          [kind |-> "date", year |-> raw.year, month |-> m, day |-> 1]
        /\ raw.cls \in {"AccountCharges", "AccountBalance"}
              => /\ decoded.kind = "object"
                 /\ decoded.period =
                       [kind |-> "date", year |-> raw.year, month |-> raw.month, day |-> 1]

\* C21: decoding a meter, a meter's characteristics or a service charge whose
\* zoning field is N yields exactly N zones with the identifiers t1..tN in
\* ascending order, each zone holding the values keyed by its own identifier.
C21_ZonesInOrder ==
    LET N == CHOOSE n \in 0..MaxZones : raw.zoning = <<Digits[n + 1]>>
        At(x, i) == IF x.null THEN NoValue ELSE x.at["t" \o ToString(i)]
    IN  (/\ decoded.kind # "none"
         /\ raw.cls \in {"Meter", "MeterCharacteristics", "ServiceCharge"}
         /\ raw.cls = "MeterCharacteristics" => decoded.kind # "ValueError")
        => /\ decoded.kind = "object"
           /\ Len(decoded.zones) = N
           /\ \A i \in 1..N :
                 /\ decoded.zones[i].id = "t" \o ToString(i)
                 /\ raw.cls = "Meter" =>
                       /\ decoded.zones[i].accepted = At(raw.accepted, i)
                       /\ decoded.zones[i].last_submitted = At(raw.sent, i)
                       /\ decoded.zones[i].submitted = At(raw.current, i)
                 /\ raw.cls = "MeterCharacteristics" =>
                       decoded.zones[i].unit = raw.tariffs["tariff" \o ToString(i)]
                 /\ raw.cls = "ServiceCharge" =>
                       /\ decoded.zones[i].cost = raw.cost.at["t" \o ToString(i)]
                       /\ decoded.zones[i].previous = raw.previous_data.at["t" \o ToString(i)]
                       /\ decoded.zones[i].current = raw.current_data.at["t" \o ToString(i)]

\* C22: a nullable field decoded through dash_or_converter is null when its
\* raw text is "-" with any spaces around it, and the result of the field's
\* converter for every other text; it is never the text "-".
C22_DashIsNull ==
    LET IsDash(t) == \E i \in 1..Len(t) :
                        t[i] = "-" /\ \A j \in 1..Len(t) : j # i => t[j] = " "
    IN  (decoded.kind = "object" /\ raw.cls = "MeterCharacteristics")
        => /\ IF IsDash(raw.manufacturer) THEN decoded.manufacturer.null
              ELSE decoded.manufacturer = [null |-> FALSE, value |-> raw.manufacturer]
           /\ IF IsDash(raw.digits) THEN decoded.digits.null
              ELSE decoded.digits = [null |-> FALSE, value |-> int(raw.digits)]
           /\ ~decoded.manufacturer.null => decoded.manufacturer.value # <<"-">>

C22_Witness ==
    /\ decoded.kind = "object" /\ raw.cls = "MeterCharacteristics"
    /\ raw.manufacturer = <<" ", "-", " ">>
    /\ decoded.manufacturer.null

\* C23: a payments query without a start period starts on the first day of
\* the month three calendar months before the end date's month, in the
\* previous year for the end months January to March, and its request names
\* both periods as MM.YYYY.
C23_DefaultPaymentsWindow ==
    LET months == raw.year * 12 + (raw.month - 1) - 3
        IsPeriodText(t, y, m) ==
            /\ Len(t) = 7 /\ t[3] = "."
            /\ NumericPeriod(t) = [kind |-> "date", year |-> y, month |-> m, day |-> 1]
    IN  (decoded.kind # "none" /\ raw.cls = "async_get_payments")
        => /\ decoded.kind = "request"
           /\ decoded.period = [kind |-> "date", year |-> months \div 12,
                                month |-> (months % 12) + 1, day |-> 1]
           /\ IsPeriodText(decoded.period_from, months \div 12, (months % 12) + 1)
           /\ IsPeriodText(decoded.period_to, raw.year, raw.month)

C23_Witness ==
    /\ raw.cls = "async_get_payments" /\ raw.year = 2024 /\ raw.month = 2 /\ raw.day = 28
    /\ decoded.kind = "request"
    /\ decoded.period_from = <<"1", "1", ".", "2", "0", "2", "3">>
    /\ decoded.period_to = <<"0", "2", ".", "2", "0", "2", "4">>

C26_ExpiryNotEnforced ==
    [][ (http' # http /\ auth' = auth)
           => /\ http'.out.kind # "UnauthenticatedException"
              /\ http'.out = RequestOutcome(http'.method, http'.resp)
              /\ client' = client ]_vars

C26_Witness ==
    /\ http.method = "GET" /\ http.expired /\ http.out.kind = "return"
    /\ client.logins = 1 /\ auth.pc = "done"

C25_AuthenticateNotSerialized ==
    \A c \in Callers :
        /\ authCalls[c] =
              IF Len(calls[c]) >= 1 /\ IsEnergosbytPlusException(calls[c][1].out)
              THEN 1 ELSE 0
        /\ pc[c] = "auth" => (Len(calls[c]) = 1 /\ authCalls[c] = 1)

C25_Witness ==
    \E c1, c2 \in Callers :
        /\ c1 # c2
        /\ pc[c1] = "auth" /\ pc[c2] = "auth"
        /\ calls[c1][1].role = "leader" /\ calls[c2][1].role = "waiter"
        /\ calls[c1][1].fut = calls[c2][1].fut
        /\ calls[c1][1].out = "AuthErr" /\ calls[c2][1].out = "AuthErr"

\* C29: cancelling a caller that waits on a pending coalesced fetch affects
\* that caller only: the leader and every other waiter of the future end
\* with the outcome of the leader's fetch.
C29_WaiterCancelIsolated ==
    \A c \in Callers : \A i \in CoalescedCalls(c) :
        LET r == calls[c][i]
            F == futures[r.fut] IN
        (~r.hit /\ F.fetch # "running") => r.out = F.fetch

\* C30: after async_refresh_account completed for an account, every enabled
\* entity that existed before and whose meter or service charge is in the
\* fetched data holds the record of that fetch, and the state the scheduled
\* refresh writes is computed from it.
C30_RefreshStoresRecord ==
    \A c \in StoreClasses : \A i \in held.last[c].ids :
        LET e == held.entities[c][i] IN
        (e.exists /\ e.enabled)
            => /\ e.record = held.last[c].v
               /\ (~e.scheduled /\ e.written # 0) => e.written = held.last[c].v

\* C31: an entity the host removed is no longer in the entity map of its
\* class, so that a later refresh that lists its key constructs a new entity
\* for it.
C31_RemovedEntityLeavesMap ==
    \A c \in StoreClasses : \A i \in SubIds :
        held.entities[c][i].hosted = "removed" => ~held.entities[c][i].exists

\* C32: every entity has at most one interval timer, and it is the one
\* _entity_updater cancels; an added entity has one and a removed entity has
\* none; updater_restart leaves exactly one timer whatever was installed
\* before, updater_stop leaves none and stopping twice is stopping once.
C32_AtMostOneTimer ==
    \A c \in StoreClasses : \A i \in SubIds :
        LET e == held.entities[c][i] IN
        /\ e.timers \in {0, 1}
        /\ e.updater <=> e.timers = 1
        /\ e.hosted = "added" => e.timers = 1
        /\ e.hosted = "removed" => e.timers = 0
        /\ updater_restart(e).timers = 1
        /\ updater_stop(e).timers = 0
        /\ updater_stop(updater_stop(e)) = updater_stop(e)

C32_Witness ==
    \E c \in StoreClasses : \E i, j \in SubIds :
        /\ held.entities[c][i].hosted = "removed"
        /\ held.entities[c][j].hosted = "added"

\* C35: an update of a meter entity whose fetched list lacks the meter's id
\* schedules the entity's removal and leaves its record as it was; an update
\* whose list has the id replaces the record by the fetched one and
\* schedules no removal.
C35_UpdateRemovesUnlistedMeter ==
    [][\A i \in SubIds :
        LET e == held.entities[MeterCls][i]
            n == held'.entities[MeterCls][i] IN
        n.updated # e.updated =>
            IF n.updated.listed
            THEN n.record = n.updated.v /\ n.removing = e.removing
            ELSE n.removing /\ n.record = e.record]_vars

C35_Witness ==
    \E i, j \in SubIds :
        LET e == held.entities[MeterCls][i]
            f == held.entities[MeterCls][j] IN
        /\ e.updated.v > 0 /\ ~e.updated.listed /\ e.removing /\ e.record # 0
        /\ f.updated.v > 0 /\ f.updated.listed /\ f.record = f.updated.v
        /\ ~f.removing

\* C33: a registration of an update delegator starts a refresh cycle exactly
\* when it leaves every supported platform registered, and then it starts
\* one cycle; a registration that leaves fewer starts none.
C33_RefreshAfterLastRegistration ==
    /\ \A k \in 1..Len(entry.registrations) :
          LET r == entry.registrations[k] IN
          r.started <=> (~r.raised /\ r.after = SUPPORTED_PLATFORMS)
    /\ entry.refreshes =
          Cardinality({k \in 1..Len(entry.registrations) :
                          entry.registrations[k].started})

C33_Witness ==
    /\ Len(entry.registrations) = 2
    /\ ~entry.registrations[1].started
    /\ entry.registrations[2].started
    /\ entry.refreshes = 1

\* C34: async_unload_entry is all or nothing: when it returns True the
\* entry's api object, final configuration, delegators and listener are
\* removed and the listener is cancelled; when a platform fails to unload it
\* returns False and the entry's data are as they were before the call.
C34_UnloadAllOrNothing ==
    entry.unload.pc = "done" =>
        IF entry.unload.result = "True"
        THEN /\ ~entry.data.api /\ ~entry.data.config
             /\ ~entry.data.delegators.present
             /\ ~entry.data.listener /\ entry.data.listening = 0
        ELSE /\ entry.unload.result = "False"
             /\ entry.data = entry.unload.before

\* C36: of two requests on one client the one that started later has the
\* strictly greater sequence number, whatever their methods and however
\* their answers interleave, so no two requests share a number; the client's
\* counter never decreases.
C36_SequenceNumbersIncrease ==
    /\ [](\A k, l \in 1..Len(wire.order) :
            k < l => wire.calls[wire.order[k]].request_counter
                        < wire.calls[wire.order[l]].request_counter)
    /\ [][wire'._request_counter >= wire._request_counter]_vars

C36_Witness ==
    \E i, j \in 1..NRequests :
        /\ wire.calls[i].pc = "sent" /\ wire.calls[j].pc = "sent"
        /\ wire.calls[i].method = "GET" /\ wire.calls[j].method = "POST"
        /\ wire.calls[i].request_counter < wire.calls[j].request_counter

====
